---- MODULE Spec2Model ----
(***************************************************************************)
(* Excel report generation of Dashboard-Maker's backend.                   *)
(*                                                                         *)
(* Current scheme: generate_excel_with_data                                *)
(*   (backend/app/services/excel_template_service.py) loads the template,  *)
(*   applies the report's cell overlay (sheet_data), then the report's     *)
(*   data source mappings, and saves the workbook.                         *)
(* Legacy scheme: ExcelReportService.generate_excel                        *)
(*   (backend/app/services/excel_report.py) loads the template and fills   *)
(*   each mapped {{type:name}} placeholder.                                *)
(*                                                                         *)
(* Strings that the code takes apart (cell references) are sequences of    *)
(* one-character strings; every cell value is a string ("42" stands for    *)
(* the number 42).  A worksheet is a sparse function from <<column, row>>  *)
(* to a cell record, like openpyxl's Worksheet._cells.                     *)
(*                                                                         *)
(* Specifications:                                                         *)
(*   Spec        one generation request, of either scheme                  *)
(*   SpecLegacy  one legacy generation of a report with stale mappings     *)
(*   SpecMerge   one generation over a template with a merged range        *)
(*   SpecScan    _detect_placeholders applied to one cell text             *)
(*   SpecParse   parse_excel_template applied to one file                  *)
(*   SpecRef     the conversions of cell references and column letters     *)
(*   SpecStore   the stored templates, reports and files under uploads,    *)
(*               updates, deletions and concurrent generations             *)
(*   SpecUpload  two uploads to one template and a generation, step by     *)
(*               step                                                      *)
(***************************************************************************)
EXTENDS Integers, Sequences, FiniteSets, TLC

VARIABLES
    pc,                  \* position of the generation request
    wb,                  \* the workbook in memory: sheet name -> worksheet
    out,                 \* the saved workbook returned to the caller
    sheet_data,          \* report.sheet_data, the overlay
    data_sources,        \* report.data_sources, the mappings
    visualization_data,  \* visualization id -> fetched rows
    idx,                 \* position of the loop over data_sources / placeholders
    current_row,         \* the write cursor of the mapping being applied
    placeholders,        \* legacy report.placeholders, in scan order
    mappings,            \* legacy report.mappings: placeholder id -> mapping
    scheme,              \* which of the two generators serves the request
    template_file,       \* the file at template_path / template_file_path
    wb_layout,           \* merges and dimensions of the workbook in memory
    out_layout,          \* merges and dimensions of the saved workbook
    fetch_log,           \* the calls of data_fetcher: <<placeholder id, mapping>>
    files,               \* the upload directory: path -> file
    templates,           \* table excel_templates: id -> row
    reports,             \* table excel_template_reports: id -> row
    requests,            \* the generate / download requests in flight
    now,                 \* datetime.now(), in seconds
    issued,              \* the values uuid.uuid4() has returned
    ops,                 \* the operations served: how many, and the last one
    cell_value,          \* the text of the cell being scanned
    detected,            \* the placeholders the scan returned
    structure,           \* what parse_excel_template returned
    ref_text,            \* the text given as a cell reference or a column
    parsed               \* what the conversions made of it

\* the variables of a generation request
genVars == <<pc, wb, out, sheet_data, data_sources, visualization_data, idx,
             current_row, placeholders, mappings, scheme, template_file,
             wb_layout, out_layout, fetch_log>>

\* the stored state and the requests working on it
storeVars == <<files, templates, reports, requests, now, issued, ops>>

\* argument and result of the scan and of the parse
pureVars == <<cell_value, detected, structure, ref_text, parsed>>

\* the variables a generation request leaves alone
elsewhere == <<storeVars, pureVars>>

vars == <<genVars, elsewhere>>

\* ------------------------------------------------------------------ bounds
\* longest data_sources list of a report
MaxMappings == 2
\* most rows a visualization returns
MaxDataRows == 2
\* most placeholders of a legacy template
MaxPlaceholders == 2

\* ------------------------------------------------------------ characters
None == "<None>"

Alphabet ==
    <<"A", "B", "C", "D", "E", "F", "G", "H", "I", "J", "K", "L", "M",
      "N", "O", "P", "Q", "R", "S", "T", "U", "V", "W", "X", "Y", "Z">>

DigitChars == <<"0", "1", "2", "3", "4", "5", "6", "7", "8", "9">>

\* str.isalpha() on one character
IsAlpha(ch) == \E i \in 1..Len(Alphabet) : Alphabet[i] = ch

\* str.isdigit() on one character
IsDigit(ch) == \E i \in 1..Len(DigitChars) : DigitChars[i] = ch

NotAlpha(ch) == ~IsAlpha(ch)

\* variant: ord(char) - ord('A')
LetterValueFromZero(ch) == (CHOOSE i \in 1..Len(Alphabet) : Alphabet[i] = ch) - 1

\* ord(char) - ord('A') + 1
LetterValue(ch) == CHOOSE i \in 1..Len(Alphabet) : Alphabet[i] = ch

DigitValue(ch) == (CHOOSE i \in 1..Len(DigitChars) : DigitChars[i] = ch) - 1

\* result = result * 26 + (ord(char) - ord('A') + 1), over the letters
RECURSIVE ColumnFold(_, _)
ColumnFold(letters, result) ==
    IF letters = <<>> THEN result
    ELSE ColumnFold(Tail(letters), result * 26 + LetterValue(Head(letters)))

\* variant: letters counted from 0 (ord(char) - ord('A'))
GetColumnIndexFromZero(col_letter) == ColumnFold(col_letter, 0) - 1

\* ExcelReportService._get_column_index
GetColumnIndex(col_letter) == ColumnFold(col_letter, 0)

\* openpyxl's column_index_from_string: one to three letters, else ValueError
ColumnStringOk(s) == Len(s) \in 1..3 /\ \A i \in 1..Len(s) : IsAlpha(s[i])

ColumnIndexFromString(s) == ColumnFold(s, 0)

\* int(s) on a digit string: ValueError on the empty string or a non-digit
IntStringOk(s) == Len(s) >= 1 /\ \A i \in 1..Len(s) : IsDigit(s[i])

RECURSIVE IntFold(_, _)
IntFold(digits, result) ==
    IF digits = <<>> THEN result
    ELSE IntFold(Tail(digits), result * 10 + DigitValue(Head(digits)))

PyInt(s) == IntFold(s, 0)

\* "Parse start cell": alphabetic characters make the column, every other
\* character the row; column_index_from_string and int raise on what they
\* cannot read
ParseStartCell(start_cell) ==
    LET start_col == SelectSeq(start_cell, IsAlpha)
        start_row == SelectSeq(start_cell, NotAlpha)
    IN  IF ColumnStringOk(start_col) /\ IntStringOk(start_row)
        THEN [ok |-> TRUE, col |-> ColumnIndexFromString(start_col),
              row |-> PyInt(start_row)]
        ELSE [ok |-> FALSE, col |-> 0, row |-> 0]

\* openpyxl resolving a well-formed coordinate such as "B3" (ws[cell_ref])
CoordinateToCell(cell_ref) ==
    <<ColumnIndexFromString(SelectSeq(cell_ref, IsAlpha)),
      PyInt(SelectSeq(cell_ref, IsDigit))>>

\* ------------------------------------------------------------- worksheet
\* fonts: the workbook default, two template styles, and Font(bold=True)
DefaultFont == [name |-> "Calibri", bold |-> FALSE, italic |-> FALSE]
TitleFont == [name |-> "Arial", bold |-> TRUE, italic |-> FALSE]
ItalicFont == [name |-> "Calibri", bold |-> FALSE, italic |-> TRUE]
BoldFont == [name |-> None, bold |-> TRUE, italic |-> FALSE]

\* a cell openpyxl creates on first access
BlankCell == [value |-> None, font |-> DefaultFont]

\* ws.cell(row, column) / ws[ref]: the cell, created blank when absent
WsCell(ws, c) == IF c \in DOMAIN ws THEN ws[c] ELSE BlankCell

\* cell.value = v
SetValue(ws, c, v) == (c :> [WsCell(ws, c) EXCEPT !.value = v]) @@ ws

\* variant: a font is set only on cells that have the default font
SetFontOnPlainOnly(ws, c, f) ==
    IF WsCell(ws, c).font = DefaultFont
    THEN (c :> [WsCell(ws, c) EXCEPT !.font = f]) @@ ws
    ELSE ws

\* cell.font = f
SetFont(ws, c, f) == (c :> [WsCell(ws, c) EXCEPT !.font = f]) @@ ws

\* ws.cell(row=..., column=...) raises ValueError below row 1 or column 1
CellOk(c) == c[1] >= 1 /\ c[2] >= 1

\* the template file: two sheets, styled and plain cells, three rows used
TemplateSheet1 ==
    (<<1, 1>> :> [value |-> "Title", font |-> TitleFont]) @@
    (<<2, 1>> :> [value |-> "tpl", font |-> DefaultFont]) @@
    (<<1, 2>> :> [value |-> "tpl", font |-> ItalicFont]) @@
    (<<2, 2>> :> [value |-> "tpl", font |-> ItalicFont]) @@
    (<<3, 3>> :> [value |-> "tpl", font |-> DefaultFont])

\* Sheet2 has the merged range B2:C2, headed by B2
TemplateSheet2 ==
    (<<1, 1>> :> [value |-> "s2", font |-> DefaultFont]) @@
    (<<2, 2>> :> [value |-> "m", font |-> DefaultFont])

Template == ("Sheet1" :> TemplateSheet1) @@ ("Sheet2" :> TemplateSheet2)

NoWorkbook == <<>>

\* a merged range is <<first column, first row, last column, last row>>
RangeCells(r) == (r[1]..r[3]) \X (r[2]..r[4])

\* the cells of the ranges other than their top-left cells: openpyxl keeps a
\* MergedCell at each, whose value cannot be set
MergedCellsOf(merges) == UNION {RangeCells(r) \ {<<r[1], r[2]>>} : r \in merges}

\* ws.merged_cells.ranges, ws.column_dimensions (letter index -> width) and
\* ws.row_dimensions (row -> height) of a sheet without any
NoLayout == [merges |-> {}, columnWidths |-> <<>>, rowHeights |-> <<>>]

TemplateLayout ==
    ("Sheet1" :> [merges |-> {}, columnWidths |-> (1 :> 12), rowHeights |-> <<>>]) @@
    ("Sheet2" :> [merges |-> {<<2, 2, 3, 2>>}, columnWidths |-> (2 :> 20),
                  rowHeights |-> (2 :> 30)])

\* an .xlsx file: the cells and the layout of each sheet
TemplateFile == [cells |-> Template, layout |-> TemplateLayout]

\* load_workbook, the cells: those of the file, and a blank MergedCell in
\* place of every cell of a merged range but its top-left one
LoadCells(file) ==
    [s \in DOMAIN file.cells |->
        LET members == MergedCellsOf(file.layout[s].merges)
        IN  [c \in DOMAIN file.cells[s] \cup members |->
                IF c \in members THEN BlankCell ELSE file.cells[s][c]]]

\* load_workbook, merges and dimensions
LoadLayout(file) == file.layout

\* variant: only the values are written, every cell with the default font
SaveCellsValuesOnly(book) ==
    [s \in DOMAIN book |->
        [c \in {c \in DOMAIN book[s] : book[s][c].value # None} |->
            [book[s][c] EXCEPT !.font = DefaultFont]]]

\* wb.save, the cells: a cell without value and style is not written
SaveCells(book) ==
    [s \in DOMAIN book |->
        [c \in {c \in DOMAIN book[s] : book[s][c] # BlankCell} |-> book[s][c]]]

\* variant: the merged ranges are not written
SaveLayoutNoMerges(layout) ==
    [s \in DOMAIN layout |-> [layout[s] EXCEPT !.merges = {}]]

\* wb.save, merges and dimensions
SaveLayout(layout) == layout

\* ws[ref] = v and ws.cell(...).value = v raise AttributeError at a MergedCell
Writable(layout, sheet_name, cells) ==
    cells \cap MergedCellsOf(layout[sheet_name].merges) = {}

\* ------------------------------------------------ inputs, current scheme
EmptyDict == [k \in {} |-> None]

\* dict.get(key, default)
DictGet(d, key, default) == IF key \in DOMAIN d THEN d[key] ELSE default

\* ColumnMapping records (schemas/excel_template.py): the first column asks
\* for target column B and has a custom header label, the second asks for A
Columns2 ==
    <<[source_column |-> "x", target_column |-> <<"B">>, header_label |-> "Hx"],
      [source_column |-> "y", target_column |-> <<"A">>, header_label |-> None]>>

\* a DataSourceMapping as stored in report.data_sources
Mapping(viz, sheet, cell, cols, header, expand) ==
    [visualization_id |-> viz, sheet_name |-> sheet, start_cell |-> cell,
     columns |-> cols, include_header |-> header, auto_expand |-> expand]

\* well-formed mappings of visualization 1 onto Sheet1
GoodMappings ==
    {Mapping(1, "Sheet1", cell, Columns2, header, expand) :
        cell \in {<<"A", "1">>, <<"B", "2">>},
        header \in BOOLEAN, expand \in BOOLEAN}

\* mappings with one irregularity each: a visualization without rows, a
\* visualization that was not fetched, a sheet the template lacks, an anchor
\* without column letters, without row digits, with row 0, and no columns
EdgeMappings ==
    {Mapping(2, "Sheet1", <<"A", "1">>, Columns2, TRUE, TRUE),
     Mapping(3, "Sheet1", <<"A", "1">>, Columns2, TRUE, TRUE),
     Mapping(1, "Gone", <<"A", "1">>, Columns2, TRUE, TRUE),
     Mapping(1, "Sheet1", <<"2">>, Columns2, TRUE, TRUE),
     Mapping(1, "Sheet1", <<"A">>, Columns2, TRUE, TRUE),
     Mapping(1, "Sheet1", <<"A", "0">>, Columns2, TRUE, TRUE),
     Mapping(1, "Sheet1", <<"B", "2">>, <<>>, TRUE, TRUE)}

Mappings == GoodMappings \cup EdgeMappings

RECURSIVE SeqsUpTo(_, _)
SeqsUpTo(S, n) ==
    IF n = 0 THEN {<<>>}
    ELSE LET shorter == SeqsUpTo(S, n - 1)
         IN  shorter \cup {Append(q, e) : q \in shorter, e \in S}

\* row i of a visualization: records name -> value; even rows lack column y
DataRow(i) ==
    IF i % 2 = 0
    THEN [x |-> ToString(10 * i + 1)]
    ELSE [x |-> ToString(10 * i + 1), y |-> ToString(10 * i + 2)]

\* what the download route fetched: visualization 1 has n rows,
\* visualization 2 has none, visualization 3 is missing
VisualizationData(n) == (1 :> [i \in 1..n |-> DataRow(i)]) @@ (2 :> <<>>)

\* overlays: Sheet1 cells with and without a value
OverlayA ==
    [sheets |->
        <<[name |-> "Sheet1",
           cells |-> (<<"A", "1">> :> [value |-> "ov"]) @@
                     (<<"B", "2">> :> [value |-> "ov"]) @@
                     (<<"B", "3">> :> [style |-> "s"])]>>]

\* an entry for a sheet the template lacks, one for Sheet2, one for Sheet1
OverlayB ==
    [sheets |->
        <<[name |-> "Gone", cells |-> (<<"A", "1">> :> [value |-> "ov"])],
          [name |-> "Sheet2", cells |-> (<<"A", "1">> :> [value |-> "ov"])],
          [name |-> "Sheet1", cells |-> (<<"A", "2">> :> [value |-> "ov"]) @@
                                        (<<"C", "4">> :> [value |-> "ov"])]>>]

Overlays == {EmptyDict, OverlayA, OverlayB}

\* ------------------------------------------ generate_excel_with_data
\* for cell_ref, cell_data in cells.items(): ws[cell_ref] = value
RECURSIVE OverlayCells(_, _)
OverlayCells(ws, cells) ==
    IF DOMAIN cells = {} THEN ws
    ELSE LET cell_ref == CHOOSE r \in DOMAIN cells : TRUE
             rest == [r \in DOMAIN cells \ {cell_ref} |-> cells[r]]
         IN  OverlayCells(
                 SetValue(ws, CoordinateToCell(cell_ref),
                          DictGet(cells[cell_ref], "value", "")),
                 rest)

\* for sheet_info in sheet_data["sheets"]: sheets the workbook lacks are passed
RECURSIVE OverlaySheets(_, _)
OverlaySheets(book, sheets) ==
    IF sheets = <<>> THEN book
    ELSE LET sheet_info == Head(sheets)
             sheet_name == sheet_info.name
         IN  OverlaySheets(
                 IF sheet_name \in DOMAIN book
                 THEN [book EXCEPT ![sheet_name] =
                          OverlayCells(@, DictGet(sheet_info, "cells", EmptyDict))]
                 ELSE book,
                 Tail(sheets))

\* the cells the overlay loop assigns in sheet s of the workbook
OverlayTargets(sd, s) ==
    IF "sheets" \notin DOMAIN sd THEN {}
    ELSE UNION {{CoordinateToCell(r) :
                    r \in DOMAIN DictGet(sd.sheets[k], "cells", EmptyDict)} :
                k \in {k \in 1..Len(sd.sheets) : sd.sheets[k].name = s}}

\* "Apply cell modifications"
ApplyCellModifications(book, sd) ==
    IF "sheets" \in DOMAIN sd THEN OverlaySheets(book, sd.sheets) ELSE book

\* col_map.get("header_label") or col_map.get("source_column", "")
HeaderValue(col_map) ==
    IF col_map.header_label # None /\ col_map.header_label # ""
    THEN col_map.header_label
    ELSE col_map.source_column

\* variant: columns counted from 1 instead of 0
TargetColumnFromOne(start_col_idx, col_offset, col_map) ==
    start_col_idx + col_offset + 1

\* the column of the col_offset-th entry of columns (enumerate, from 0)
TargetColumn(start_col_idx, col_offset, col_map) == start_col_idx + col_offset

\* "Write header if requested": value and bold font at each column
RECURSIVE HeaderWrites(_, _, _, _, _)
HeaderWrites(ws, columns, col_offset, start_col_idx, row) ==
    IF col_offset >= Len(columns) THEN ws
    ELSE LET col_map == columns[col_offset + 1]
             c == <<TargetColumn(start_col_idx, col_offset, col_map), row>>
         IN  HeaderWrites(
                 SetFont(SetValue(ws, c, HeaderValue(col_map)), c, BoldFont),
                 columns, col_offset + 1, start_col_idx, row)

\* one data row: data_row.get(source_col, "") at each column
RECURSIVE RowWrites(_, _, _, _, _, _)
RowWrites(ws, columns, col_offset, start_col_idx, row, data_row) ==
    IF col_offset >= Len(columns) THEN ws
    ELSE LET col_map == columns[col_offset + 1]
             c == <<TargetColumn(start_col_idx, col_offset, col_map), row>>
         IN  RowWrites(
                 SetValue(ws, c, DictGet(data_row, col_map.source_column, "")),
                 columns, col_offset + 1, start_col_idx, row, data_row)

\* "Write data rows": one row of the sheet per data row, from the cursor on
RECURSIVE DataWrites(_, _, _, _, _)
DataWrites(ws, columns, start_col_idx, row, data_rows) ==
    IF data_rows = <<>> THEN ws
    ELSE DataWrites(
             RowWrites(ws, columns, 0, start_col_idx, row, Head(data_rows)),
             columns, start_col_idx, row + 1, Tail(data_rows))

\* the cells of the given rows that the column loop writes
TargetCells(start_col_idx, columns, rows) ==
    {<<TargetColumn(start_col_idx, j - 1, columns[j]), r>> :
        j \in 1..Len(columns), r \in rows}

\* variant: the sheet test is missing
MappingSkippedNoSheetTest(mapping, viz_data, book) ==
    \/ mapping.visualization_id \notin DOMAIN viz_data
    \/ viz_data[mapping.visualization_id] = <<>>

\* the three `continue` tests at the head of the mapping loop
MappingSkipped(mapping, viz_data, book) ==
    \/ mapping.visualization_id \notin DOMAIN viz_data
    \/ viz_data[mapping.visualization_id] = <<>>
    \/ mapping.sheet_name \notin DOMAIN book

\* for data_row in data_rows: every fetched row is written; the loop never
\* reads the mapping's auto_expand
RowsToWrite(mapping, data_rows) == data_rows

\* the mapping the loop is at
CurrentMappingFromEnd == data_sources[Len(data_sources) + 1 - idx]

\* "for mapping in data_sources": the mapping of the iteration
CurrentMapping == data_sources[idx]

\* wb = load_workbook(template_path)
LoadWorkbook ==
    /\ scheme = "current"
    /\ pc = "load"
    /\ wb' = LoadCells(template_file)
    /\ wb_layout' = LoadLayout(template_file)
    /\ pc' = "overlay"
    /\ UNCHANGED <<out, sheet_data, data_sources, visualization_data, idx,
                   current_row, placeholders, mappings, scheme>>
    /\ UNCHANGED <<template_file, out_layout, fetch_log, elsewhere>>

\* the overlay loop, before any mapping; an entry at a MergedCell raises
ApplyOverlay ==
    /\ pc = "overlay"
    /\ IF \A s \in DOMAIN wb : Writable(wb_layout, s, OverlayTargets(sheet_data, s))
       THEN /\ wb' = ApplyCellModifications(wb, sheet_data)
            /\ pc' = "mapping"
            /\ idx' = 1
       ELSE /\ pc' = "raised"
            /\ UNCHANGED <<wb, idx>>
    /\ UNCHANGED <<out, sheet_data, data_sources, visualization_data,
                   current_row, placeholders, mappings, scheme>>
    /\ UNCHANGED <<template_file, wb_layout, out_layout, fetch_log, elsewhere>>

\* head of one iteration of "for mapping in data_sources": the skip tests,
\* then the anchor is parsed; a ValueError leaves the function
MappingBegin ==
    /\ pc = "mapping"
    /\ idx <= Len(data_sources)
    /\ IF MappingSkipped(CurrentMapping, visualization_data, wb)
       THEN /\ idx' = idx + 1
            /\ UNCHANGED <<pc, current_row>>
       ELSE LET anchor == ParseStartCell(CurrentMapping.start_cell)
            IN  IF anchor.ok
                THEN /\ pc' = "header"
                     /\ current_row' = anchor.row
                     /\ UNCHANGED idx
                ELSE /\ pc' = "raised"
                     /\ UNCHANGED <<idx, current_row>>
    /\ UNCHANGED <<wb, out, sheet_data, data_sources, visualization_data,
                   placeholders, mappings, scheme>>
    /\ UNCHANGED <<template_file, wb_layout, out_layout, fetch_log, elsewhere>>

\* variant: the header is written but the cursor stays on the header row
WriteHeaderNoAdvance ==
    /\ pc = "header"
    /\ LET mapping == data_sources[idx]
           anchor == ParseStartCell(mapping.start_cell)
       IN  IF mapping.include_header /\ mapping.columns # <<>>
           THEN /\ wb' = [wb EXCEPT ![mapping.sheet_name] =
                             HeaderWrites(@, mapping.columns, 0,
                                          anchor.col, current_row)]
                /\ pc' = "rows"
           ELSE /\ pc' = "rows"
                /\ UNCHANGED wb
    /\ UNCHANGED <<out, sheet_data, data_sources, visualization_data, idx,
                   current_row, placeholders, mappings, scheme>>
    /\ UNCHANGED <<template_file, wb_layout, out_layout, fetch_log, elsewhere>>

\* "if include_header and columns": the header row, then current_row += 1
WriteHeader ==
    /\ pc = "header"
    /\ LET mapping == CurrentMapping
           anchor == ParseStartCell(mapping.start_cell)
       IN  IF mapping.include_header /\ mapping.columns # <<>>
           THEN IF /\ CellOk(<<anchor.col, current_row>>)
                   /\ Writable(wb_layout, mapping.sheet_name,
                               TargetCells(anchor.col, mapping.columns,
                                           {current_row}))
                THEN /\ wb' = [wb EXCEPT ![mapping.sheet_name] =
                                  HeaderWrites(@, mapping.columns, 0,
                                               anchor.col, current_row)]
                     /\ current_row' = current_row + 1
                     /\ pc' = "rows"
                ELSE /\ pc' = "raised"
                     /\ UNCHANGED <<wb, current_row>>
           ELSE /\ pc' = "rows"
                /\ UNCHANGED <<wb, current_row>>
    /\ UNCHANGED <<out, sheet_data, data_sources, visualization_data, idx,
                   placeholders, mappings, scheme>>
    /\ UNCHANGED <<template_file, wb_layout, out_layout, fetch_log, elsewhere>>

\* "for data_row in data_rows", then the loop moves to the next mapping
WriteDataRows ==
    /\ pc = "rows"
    /\ LET mapping == CurrentMapping
           anchor == ParseStartCell(mapping.start_cell)
           data_rows ==
               RowsToWrite(mapping, visualization_data[mapping.visualization_id])
       IN  IF \/ mapping.columns # <<>> /\ ~CellOk(<<anchor.col, current_row>>)
              \/ ~Writable(wb_layout, mapping.sheet_name,
                           TargetCells(anchor.col, mapping.columns,
                                       current_row ..
                                           (current_row + Len(data_rows) - 1)))
           THEN /\ pc' = "raised"
                /\ UNCHANGED <<wb, current_row, idx>>
           ELSE /\ wb' = [wb EXCEPT ![mapping.sheet_name] =
                             DataWrites(@, mapping.columns, anchor.col,
                                        current_row, data_rows)]
                /\ current_row' = current_row + Len(data_rows)
                /\ idx' = idx + 1
                /\ pc' = "mapping"
    /\ UNCHANGED <<out, sheet_data, data_sources, visualization_data,
                   placeholders, mappings, scheme>>
    /\ UNCHANGED <<template_file, wb_layout, out_layout, fetch_log, elsewhere>>

\* variant: the cell modifications are applied after the mappings
SaveWorkbookOverlayLast ==
    /\ pc = "mapping"
    /\ idx > Len(data_sources)
    /\ out' = SaveCells(ApplyCellModifications(wb, sheet_data))
    /\ out_layout' = SaveLayout(wb_layout)
    /\ pc' = "saved"
    /\ UNCHANGED <<wb, sheet_data, data_sources, visualization_data, idx,
                   current_row, placeholders, mappings, scheme>>
    /\ UNCHANGED <<template_file, wb_layout, fetch_log, elsewhere>>

\* wb.save(output); return output.read()
SaveWorkbook ==
    /\ pc = "mapping"
    /\ idx > Len(data_sources)
    /\ out' = SaveCells(wb)
    /\ out_layout' = SaveLayout(wb_layout)
    /\ pc' = "saved"
    /\ UNCHANGED <<wb, sheet_data, data_sources, visualization_data, idx,
                   current_row, placeholders, mappings, scheme>>
    /\ UNCHANGED <<template_file, wb_layout, fetch_log, elsewhere>>

\* ------------------------------------------------- inputs, legacy scheme
PlaceholderTypes == {"value", "table", "chart"}

\* the cells of Sheet1 that may hold a token, in the order iter_rows meets them
TokenCells == <<<<"A", "1">>, <<"B", "2">>>>

\* the data sources a placeholder can be mapped to; 0 stands for no mapping
SourceIds == 0..5

\* a placeholder of the template together with the source it is mapped to
Slots == PlaceholderTypes \X (1..Len(TokenCells)) \X SourceIds

\* lists of slots in scan order: cell positions never decrease (several
\* tokens may share a cell)
ScanOrdered(q) == \A i \in 1..(Len(q) - 1) : q[i][2] <= q[i + 1][2]

SlotLists == {q \in SeqsUpTo(Slots, MaxPlaceholders) : ScanOrdered(q)}

\* report.placeholders as _detect_placeholders leaves them: a fresh id each
PlaceholdersOf(q) ==
    [i \in 1..Len(q) |->
        [id |-> ToString(i), type |-> q[i][1], sheet_name |-> "Sheet1",
         cell_reference |-> TokenCells[q[i][2]]]]

\* report.mappings: placeholder id -> DataSourceMapping, mapped ones only
MappingsOf(q) ==
    [id \in {ToString(i) : i \in {i \in 1..Len(q) : q[i][3] # 0}} |->
        [type |-> "visualization",
         source_id |-> q[CHOOSE i \in 1..Len(q) : ToString(i) = id][3]]]

\* data_fetcher(mapping): a single value, a 2 x 2 table, no rows, an
\* exception, and rows of which the first is empty
FetchRaises(mapping) == mapping.source_id = 4

Fetch(mapping) ==
    CASE mapping.source_id = 1 -> <<<<"42">>>>
      [] mapping.source_id = 2 -> <<<<"a", "b">>, <<"c", "d">>>>
      [] mapping.source_id = 3 -> <<>>
      [] mapping.source_id = 5 -> <<<<>>, <<"e">>>>
      [] OTHER -> <<>>

\* the uploaded legacy template: the token text in each placeholder's cell
RECURSIVE TokenWrites(_, _)
TokenWrites(ws, phs) ==
    IF phs = <<>> THEN ws
    ELSE TokenWrites(
             SetValue(ws, CoordinateToCell(Head(phs).cell_reference), "{{token}}"),
             Tail(phs))

LegacySheet1 ==
    (<<1, 3>> :> [value |-> "tpl", font |-> DefaultFont]) @@
    (<<3, 3>> :> [value |-> "tpl", font |-> ItalicFont])

LegacyTemplate(phs) == ("Sheet1" :> TokenWrites(LegacySheet1, phs))

\* the file at report.template_file_path
LegacyFile(phs) ==
    [cells |-> LegacyTemplate(phs), layout |-> ("Sheet1" :> NoLayout)]

\* entries of report.mappings under keys that are the id of no placeholder,
\* as update_mappings stores them or an upload of another file leaves them
StaleMappings ==
    {EmptyDict,
     ("stale-1" :> [type |-> "visualization", source_id |-> 1]),
     ("stale-1" :> [type |-> "visualization", source_id |-> 2]) @@
     ("stale-2" :> [type |-> "visualization", source_id |-> 4])}

\* ------------------------------------- ExcelReportService.generate_excel
\* one row of _fill_table_data: value at column col + col_idx
RECURSIVE TableRowWrites(_, _, _, _, _)
TableRowWrites(ws, col, row, row_data, col_idx) ==
    IF col_idx >= Len(row_data) THEN ws
    ELSE TableRowWrites(
             SetValue(ws, <<col + col_idx, row>>, row_data[col_idx + 1]),
             col, row, row_data, col_idx + 1)

RECURSIVE TableWrites(_, _, _, _, _)
TableWrites(ws, col, row_num, data, row_idx) ==
    IF row_idx >= Len(data) THEN ws
    ELSE TableWrites(
             TableRowWrites(ws, col, row_num + row_idx, data[row_idx + 1], 0),
             col, row_num, data, row_idx + 1)

\* _fill_table_data: no data clears the cell; else the cell is cleared and the
\* rows are written from it, rightwards and downwards
FillTableData(ws, start_cell, data) ==
    IF data = <<>>
    THEN SetValue(ws, CoordinateToCell(start_cell), "")
    ELSE LET col_letter == SelectSeq(start_cell, IsAlpha)
             row_num == PyInt(SelectSeq(start_cell, IsDigit))
         IN  TableWrites(SetValue(ws, CoordinateToCell(start_cell), ""),
                         GetColumnIndex(col_letter), row_num, data, 0)

\* variant: the value replaces the token only where the token still stands
FillValueOverTokenOnly(ws, cell_ref, data) ==
    IF WsCell(ws, CoordinateToCell(cell_ref)).value = "{{token}}"
    THEN SetValue(ws, CoordinateToCell(cell_ref),
                  IF data # <<>> /\ Len(data[1]) > 0 THEN data[1][1] ELSE "")
    ELSE ws

\* the 'value' branch: data[0][0], or "" when there is none
FillValue(ws, cell_ref, data) ==
    SetValue(ws, CoordinateToCell(cell_ref),
             IF data # <<>> /\ Len(data[1]) > 0 THEN data[1][1] ELSE "")

\* the 'chart' branch
FillChart(ws, cell_ref, data) ==
    SetValue(ws, CoordinateToCell(cell_ref), "[Chart data]")

\* what report.mappings.get returns for a key it lacks (Python's None)
NoMapping == [type |-> None, source_id |-> 0]

\* variant: a placeholder without a mapping of its own takes any stored one
MappingsGetAny(maps, placeholder_id) ==
    IF placeholder_id \in DOMAIN maps THEN maps[placeholder_id]
    ELSE IF DOMAIN maps # {} THEN maps[CHOOSE k \in DOMAIN maps : TRUE]
    ELSE NoMapping

\* report.mappings.get(placeholder_id)
MappingsGet(maps, placeholder_id) == DictGet(maps, placeholder_id, NoMapping)

\* the body of "for placeholder_data in report.placeholders"
FillPlaceholderIn(book, placeholder_data, maps) ==
    LET placeholder_id == placeholder_data.id
        sheet_name == placeholder_data.sheet_name
        cell_ref == placeholder_data.cell_reference
        mapping == MappingsGet(maps, placeholder_id)
    IN  IF mapping = NoMapping THEN book
        ELSE IF FetchRaises(mapping) THEN book
        ELSE IF sheet_name \notin DOMAIN book THEN book
        ELSE LET data == Fetch(mapping)
             IN  [book EXCEPT ![sheet_name] =
                     CASE placeholder_data.type = "value" ->
                              FillValue(@, cell_ref, data)
                       [] placeholder_data.type = "table" ->
                              FillTableData(@, cell_ref, data)
                       [] placeholder_data.type = "chart" ->
                              FillChart(@, cell_ref, data)
                       [] OTHER -> @]

\* wb = load_workbook(report.template_file_path)
LegacyLoad ==
    /\ scheme = "legacy"
    /\ pc = "load"
    /\ wb' = LoadCells(template_file)
    /\ wb_layout' = LoadLayout(template_file)
    /\ pc' = "fill"
    /\ idx' = 1
    /\ UNCHANGED <<out, sheet_data, data_sources, visualization_data,
                   current_row, placeholders, mappings, scheme>>
    /\ UNCHANGED <<template_file, out_layout, fetch_log, elsewhere>>

\* one iteration of the placeholder loop; data_fetcher is called with the
\* mapping found under the placeholder's id
FillPlaceholder ==
    /\ pc = "fill"
    /\ idx <= Len(placeholders)
    /\ wb' = FillPlaceholderIn(wb, placeholders[idx], mappings)
    /\ fetch_log' =
          LET mapping == MappingsGet(mappings, placeholders[idx].id)
          IN  IF mapping = NoMapping THEN fetch_log
              ELSE Append(fetch_log, <<placeholders[idx].id, mapping>>)
    /\ idx' = idx + 1
    /\ UNCHANGED <<pc, out, sheet_data, data_sources, visualization_data,
                   current_row, placeholders, mappings, scheme>>
    /\ UNCHANGED <<template_file, wb_layout, out_layout, elsewhere>>

\* wb.save(output); return output.getvalue(), filename
LegacySave ==
    /\ pc = "fill"
    /\ idx > Len(placeholders)
    /\ out' = SaveCells(wb)
    /\ out_layout' = SaveLayout(wb_layout)
    /\ pc' = "saved"
    /\ UNCHANGED <<wb, sheet_data, data_sources, visualization_data, idx,
                   current_row, placeholders, mappings, scheme>>
    /\ UNCHANGED <<template_file, wb_layout, fetch_log, elsewhere>>

\* a generate request of the legacy scheme, about to generate
InitLegacy ==
    /\ scheme = "legacy"
    /\ pc = "load"
    /\ \E q \in SlotLists :
          /\ placeholders = PlaceholdersOf(q)
          /\ mappings = MappingsOf(q)
    /\ template_file = LegacyFile(placeholders)
    /\ sheet_data = EmptyDict
    /\ data_sources = <<>>
    /\ visualization_data = EmptyDict

\* a download request of the current scheme, about to generate
InitCurrent ==
    /\ scheme = "current"
    /\ pc = "load"
    /\ sheet_data \in Overlays
    /\ data_sources \in SeqsUpTo(Mappings, MaxMappings)
    /\ \E n \in 1..MaxDataRows : visualization_data = VisualizationData(n)
    /\ template_file = TemplateFile
    /\ placeholders = <<>>
    /\ mappings = EmptyDict

\* nothing loaded, nothing saved, nothing fetched
InitRequest ==
    /\ wb = NoWorkbook
    /\ out = NoWorkbook
    /\ wb_layout = NoWorkbook
    /\ out_layout = NoWorkbook
    /\ fetch_log = <<>>
    /\ idx = 0
    /\ current_row = 0

\* nothing stored
InitNoStore ==
    /\ files = <<>>
    /\ templates = <<>>
    /\ reports = <<>>
    /\ requests = <<>>
    /\ now = 0
    /\ issued = {}
    /\ ops = [n |-> 0, op |-> "none", reports |-> {}, templates |-> {},
              ok |-> TRUE]

\* nothing scanned, nothing parsed
InitNoCall ==
    /\ cell_value = <<>>
    /\ detected = <<>>
    /\ structure = <<>>
    /\ ref_text = <<>>
    /\ parsed = <<>>

\* the other specifications' variables, at rest
InitElsewhere == InitNoStore /\ InitNoCall

\* no generation request
InitNoRequest ==
    /\ InitRequest
    /\ scheme = "none"
    /\ template_file = <<>>
    /\ placeholders = <<>>
    /\ mappings = EmptyDict
    /\ sheet_data = EmptyDict
    /\ data_sources = <<>>
    /\ visualization_data = EmptyDict

Init ==
    /\ InitRequest
    /\ InitElsewhere
    /\ (InitCurrent \/ InitLegacy)

Next ==
    \/ LoadWorkbook
    \/ ApplyOverlay
    \/ MappingBegin
    \/ WriteHeader
    \/ WriteDataRows
    \/ SaveWorkbook
    \/ LegacyLoad
    \/ FillPlaceholder
    \/ LegacySave

Spec == Init /\ [][Next]_vars

\* ------------------------- a legacy generation with stale mappings stored
\* report.mappings holds the mappings of the placeholders and stale entries
InitStale ==
    /\ InitRequest
    /\ InitElsewhere
    /\ scheme = "legacy"
    /\ pc = "load"
    /\ \E q \in SlotLists, stale \in StaleMappings :
          /\ placeholders = PlaceholdersOf(q)
          /\ mappings = MappingsOf(q) @@ stale
    /\ template_file = LegacyFile(placeholders)
    /\ sheet_data = EmptyDict
    /\ data_sources = <<>>
    /\ visualization_data = EmptyDict

NextLegacy ==
    \/ LegacyLoad
    \/ FillPlaceholder
    \/ LegacySave

SpecLegacy == InitStale /\ [][NextLegacy]_vars

\* ------------------------------------------- vocabulary of the properties
\* the anchor (col0, row0) of a mapping
Anchor(m) == ParseStartCell(m.start_cell)

\* the rows fetched for a mapping's visualization, none when it is missing
FetchedRows(m) == DictGet(visualization_data, m.visualization_id, <<>>)

\* a mapping that generation applies: its sheet exists, its visualization
\* returned rows, and its anchor names a cell
IsApplied(m) ==
    /\ m.sheet_name \in DOMAIN Template
    /\ FetchedRows(m) # <<>>
    /\ Anchor(m).ok
    /\ Anchor(m).row >= 1

HasHeader(m) == m.include_header /\ m.columns # <<>>

\* the k columns starting at col0
ColumnSpan(m) == Anchor(m).col .. (Anchor(m).col + Len(m.columns) - 1)

HeaderCellsOf(m) ==
    IF HasHeader(m) THEN {<<col, Anchor(m).row>> : col \in ColumnSpan(m)} ELSE {}

FirstDataRow(m) == Anchor(m).row + (IF HasHeader(m) THEN 1 ELSE 0)

DataRowSpan(m) == FirstDataRow(m) .. (FirstDataRow(m) + Len(FetchedRows(m)) - 1)

DataCellsOf(m) == ColumnSpan(m) \X DataRowSpan(m)

WriteCellsOf(m) == HeaderCellsOf(m) \cup DataCellsOf(m)

\* what mapping m puts into cell c of its region
WrittenValue(m, c) ==
    LET col_map == m.columns[c[1] - Anchor(m).col + 1]
    IN  IF c \in HeaderCellsOf(m)
        THEN HeaderValue(col_map)
        ELSE DictGet(FetchedRows(m)[c[2] - FirstDataRow(m) + 1],
                     col_map.source_column, "")

\* positions of the applied mappings that write cell c of sheet s
WritersOf(s, c) ==
    {i \in 1..Len(data_sources) :
        /\ IsApplied(data_sources[i])
        /\ data_sources[i].sheet_name = s
        /\ c \in WriteCellsOf(data_sources[i])}

LastOf(S) == CHOOSE i \in S : \A j \in S : j <= i

\* the overlay entries for sheet s: <<cell, value>> pairs
OverlayEntries(s) ==
    IF "sheets" \notin DOMAIN sheet_data THEN {}
    ELSE UNION {
        {<<CoordinateToCell(r), DictGet(sheet_data.sheets[k].cells[r], "value", "")>> :
            r \in DOMAIN sheet_data.sheets[k].cells} :
        k \in {k \in 1..Len(sheet_data.sheets) : sheet_data.sheets[k].name = s}}

\* the mapping whose iteration has just ended, the loop being back at its head
JustEnded == data_sources[idx - 1]

AtLoopHead == pc = "mapping" /\ idx > 1

\* the cells of sheet s that a step changed
Changed(s) ==
    {c \in DOMAIN wb'[s] \cup DOMAIN wb[s] : WsCell(wb'[s], c) # WsCell(wb[s], c)}

OtherSheetsKept(s) == \A t \in DOMAIN wb \ {s} : wb'[t] = wb[t]

\* the last row of the template sheet that holds a cell
TemplateMaxRow(s) ==
    CHOOSE r \in {c[2] : c \in DOMAIN Template[s]} :
        \A c \in DOMAIN Template[s] : c[2] <= r

\* ------------------------------------------------------------------ C1
\* C1: the overlay is applied before the mappings, so in the saved workbook a
\* cell that an overlay entry and an applied mapping both target holds the
\* value of the (last) mapping that writes it, not the overlay's value (the
\* witness has an overlay value "ov", which no mapping writes).
C1_MappingWinsOverOverlay ==
    (scheme = "current" /\ pc = "saved") =>
        \A s \in DOMAIN out : \A e \in OverlayEntries(s) :
            WritersOf(s, e[1]) # {} =>
                out[s][e[1]].value =
                    WrittenValue(data_sources[LastOf(WritersOf(s, e[1]))], e[1])

C1_Witness ==
    /\ scheme = "current"
    /\ pc = "saved"
    /\ \E e \in OverlayEntries("Sheet1") :
          /\ e[2] = "ov"
          /\ WritersOf("Sheet1", e[1]) # {}
          /\ out["Sheet1"][e[1]].value # "ov"

\* ------------------------------------------------------------------ C2
\* C2: for a mapping with include_header, k columns and n fetched rows, the
\* header step changes cells of row row0 only, in the k columns from col0,
\* and puts a header value in each; the data step changes cells of rows
\* row0+1 .. row0+n only, in the same k columns, row row0+i holding values of
\* data row i; nothing at row row0+n+1 or below changes.
C2_HeaderThenRows ==
    [][ LET m == CurrentMapping
            s == m.sheet_name
        IN  /\ (pc = "header" /\ pc' = "rows" /\ m.include_header) =>
                  /\ Changed(s) \subseteq (ColumnSpan(m) \X {Anchor(m).row})
                  /\ \A col \in ColumnSpan(m) :
                        wb'[s][<<col, Anchor(m).row>>].value \in
                            {HeaderValue(m.columns[j]) : j \in 1..Len(m.columns)}
                  /\ OtherSheetsKept(s)
            /\ (pc = "rows" /\ pc' = "mapping" /\ m.include_header) =>
                  /\ Changed(s) \subseteq
                        (ColumnSpan(m) \X
                            ((Anchor(m).row + 1) .. (Anchor(m).row + Len(FetchedRows(m)))))
                  /\ \A i \in 1..Len(FetchedRows(m)) : \A col \in ColumnSpan(m) :
                        wb'[s][<<col, Anchor(m).row + i>>].value \in
                            {DictGet(FetchedRows(m)[i], m.columns[j].source_column, "") :
                                j \in 1..Len(m.columns)}
                  /\ OtherSheetsKept(s)
      ]_vars

\* the B2 mapping with two columns and MaxDataRows rows has just been applied
C2_Witness ==
    /\ AtLoopHead
    /\ IsApplied(JustEnded)
    /\ JustEnded.include_header
    /\ JustEnded.start_cell = <<"B", "2">>
    /\ Len(JustEnded.columns) = 2
    /\ Len(FetchedRows(JustEnded)) = MaxDataRows
    /\ wb["Sheet1"][<<2, 2>>].value = "Hx"
    /\ wb["Sheet1"][<<2, 2 + MaxDataRows>>].value = DataRow(MaxDataRows).x
    /\ <<2, 2 + MaxDataRows + 1>> \notin DOMAIN wb["Sheet1"]

\* ------------------------------------------------------------------ C3
\* the offset a ColumnMapping declares: target_column "A" is offset 0
TargetColumnOffset(col_map) == ColumnIndexFromString(col_map.target_column) - 1

\* C3: once a mapping has been applied, for every data row and every column
\* the value row[source_column] stands at column col0 + the column's declared
\* target offset.
C3_ValuesAtDeclaredTarget ==
    (AtLoopHead /\ IsApplied(JustEnded)) =>
        LET m == JustEnded
        IN  \A i \in 1..Len(FetchedRows(m)) : \A j \in 1..Len(m.columns) :
                WsCell(wb[m.sheet_name],
                       <<Anchor(m).col + TargetColumnOffset(m.columns[j]),
                         FirstDataRow(m) + i - 1>>).value =
                    DictGet(FetchedRows(m)[i], m.columns[j].source_column, "")

\* ------------------------------------------------------------------ C4
\* C4: a mapping whose sheet_name is not a sheet of the workbook does not
\* raise and writes nothing, the loop going on to the next mapping; and a
\* saved workbook holds, in every cell an applied mapping targets, the value
\* written by the last applied mapping that targets it, whatever unknown-sheet
\* mappings stand before or after in the list.
C4_UnknownSheetSkipped ==
    [][ /\ (pc = "mapping" /\ idx <= Len(data_sources)
            /\ CurrentMapping.sheet_name \notin DOMAIN Template) =>
               (pc' = "mapping" /\ idx' = idx + 1 /\ wb' = wb)
        /\ (pc' = "saved"
            /\ \E i \in 1..Len(data_sources) :
                  data_sources[i].sheet_name \notin DOMAIN Template) =>
               \A s \in DOMAIN Template : \A c \in DOMAIN out'[s] :
                  WritersOf(s, c) # {} =>
                      out'[s][c].value =
                          WrittenValue(data_sources[LastOf(WritersOf(s, c))], c)
      ]_vars

\* saved, with an applied mapping and an unknown-sheet mapping in the list
C4_Witness ==
    /\ scheme = "current"
    /\ pc = "saved"
    /\ \E i, j \in 1..Len(data_sources) :
          /\ data_sources[i].sheet_name = "Gone"
          /\ IsApplied(data_sources[j])
          /\ \A c \in WriteCellsOf(data_sources[j]) :
                out["Sheet1"][c].value = WrittenValue(data_sources[j], c)

\* ------------------------------------------------------------------ C5
\* C5: a defect of one mapping (unknown visualization, no rows, unknown
\* sheet, unparsable anchor) never fails the generation: it does not end
\* raising.
C5_NeverEscalated == pc # "raised"

\* ------------------------------------------------------------------ C6
\* C6: a mapping with auto_expand = false writes no row below the last row
\* the template sheet uses: the rows it wrote end at the cursor.
C6_NoRowsPastFootprint ==
    (AtLoopHead /\ IsApplied(JustEnded) /\ ~JustEnded.auto_expand) =>
        \A c \in WriteCellsOf(JustEnded) :
            c[2] > TemplateMaxRow(JustEnded.sheet_name) =>
                WsCell(wb[JustEnded.sheet_name], c).value # WrittenValue(JustEnded, c)

\* ------------------------------------------------------------------ C7
\* the header cells of sheet s written by applied mappings
HeaderCellsWritten(s) ==
    UNION {HeaderCellsOf(data_sources[i]) :
              i \in {i \in 1..Len(data_sources) :
                        /\ IsApplied(data_sources[i])
                        /\ data_sources[i].sheet_name = s}}

\* C7: in the saved workbook every header cell written by a mapping has the
\* font Font(bold=True), whatever its template font was, and every other
\* cell, data cells and overlay cells included, has its template font.
C7_OnlyHeadersRestyled ==
    (scheme = "current" /\ pc = "saved") =>
        /\ DOMAIN out = DOMAIN Template
        /\ \A s \in DOMAIN out : \A c \in DOMAIN out[s] :
              out[s][c].font =
                  IF c \in HeaderCellsWritten(s) THEN BoldFont
                  ELSE WsCell(Template[s], c).font

\* one saved workbook with a header over the styled title cell A1, data in
\* the italic cell B2 and an overlay value that no mapping replaced
C7_Witness ==
    /\ scheme = "current"
    /\ pc = "saved"
    /\ <<1, 1>> \in HeaderCellsWritten("Sheet1")
    /\ out["Sheet1"][<<1, 1>>].font = BoldFont
    /\ <<2, 2>> \notin HeaderCellsWritten("Sheet1")
    /\ WritersOf("Sheet1", <<2, 2>>) # {}
    /\ out["Sheet1"][<<2, 2>>].font = ItalicFont
    /\ \E e \in OverlayEntries("Sheet1") : out["Sheet1"][e[1]].value = "ov"

Fetched(i) ==
    /\ placeholders[i].id \in DOMAIN mappings
    /\ ~FetchRaises(mappings[placeholders[i].id])

DataOf(i) == Fetch(mappings[placeholders[i].id])

CellOf(i) == CoordinateToCell(placeholders[i].cell_reference)

HasFirstScalar(i) == DataOf(i) # <<>> /\ Len(DataOf(i)[1]) > 0

\* the cells (col0 + j, row0 + i) of the rows d fetched for placeholder p
BlockOf(p) ==
    UNION {{<<CellOf(p)[1] + j - 1, CellOf(p)[2] + i - 1>> :
               j \in 1..Len(DataOf(p)[i])} : i \in 1..Len(DataOf(p))}

\* ------------------------------------------------------------------ C9
\* C9 as stated: in the saved workbook the cell of every mapped value
\* placeholder whose data has first scalar v holds v, whatever other
\* placeholders exist, at any cell.
C9_ValueStandsAlways ==
    (scheme = "legacy" /\ pc = "saved") =>
        \A i \in 1..Len(placeholders) :
            (placeholders[i].type = "value" /\ Fetched(i) /\ HasFirstScalar(i)) =>
                out["Sheet1"][CellOf(i)].value = DataOf(i)[1][1]

\* C9 amended: the cell holds v whatever placeholders exist at other cells
\* (a table filled earlier may cover it), provided no placeholder later in
\* scan order that shares the cell is mapped and fetched: the last filled
\* placeholder of a cell decides it.
C9_ValueStandsUnlessCellShared ==
    (scheme = "legacy" /\ pc = "saved") =>
        \A i \in 1..Len(placeholders) :
            (/\ placeholders[i].type = "value" /\ Fetched(i) /\ HasFirstScalar(i)
             /\ ~\E j \in (i + 1)..Len(placeholders) :
                    Fetched(j) /\ CellOf(j) = CellOf(i)) =>
                out["Sheet1"][CellOf(i)].value = DataOf(i)[1][1]

\* a table at A1 whose block covers B2, then the value placeholder at B2
C9_Witness ==
    /\ scheme = "legacy"
    /\ pc = "saved"
    /\ \E i, j \in 1..Len(placeholders) :
          /\ i < j
          /\ placeholders[i].type = "table" /\ Fetched(i)
          /\ placeholders[j].type = "value" /\ Fetched(j) /\ HasFirstScalar(j)
          /\ CellOf(j) \in BlockOf(i)
          /\ CellOf(j) # CellOf(i)
          /\ out["Sheet1"][CellOf(j)].value = "42"

\* ------------------------------------------------------------------ C10
\* C10 as stated: filling a mapped table placeholder at (col0, row0) with
\* fetched rows d puts d[i][j] at (col0 + j, row0 + i), counted from 0, and
\* changes no other cell.
C10_TableBlockOnly ==
    [][ (scheme = "legacy" /\ pc = "fill" /\ idx <= Len(placeholders)
         /\ placeholders[idx].type = "table" /\ Fetched(idx)) =>
            /\ \A i \in 1..Len(DataOf(idx)) : \A j \in 1..Len(DataOf(idx)[i]) :
                  wb'["Sheet1"][<<CellOf(idx)[1] + j - 1,
                                  CellOf(idx)[2] + i - 1>>].value = DataOf(idx)[i][j]
            /\ Changed("Sheet1") \subseteq BlockOf(idx)
      ]_vars

\* C10 amended: the same, except that the placeholder's own cell is set to
\* the empty string when d is empty or its first row is empty.
C10_TableBlockAndClearedToken ==
    [][ (scheme = "legacy" /\ pc = "fill" /\ idx <= Len(placeholders)
         /\ placeholders[idx].type = "table" /\ Fetched(idx)) =>
            /\ \A i \in 1..Len(DataOf(idx)) : \A j \in 1..Len(DataOf(idx)[i]) :
                  wb'["Sheet1"][<<CellOf(idx)[1] + j - 1,
                                  CellOf(idx)[2] + i - 1>>].value = DataOf(idx)[i][j]
            /\ Changed("Sheet1") \subseteq (BlockOf(idx) \cup {CellOf(idx)})
            /\ CellOf(idx) \notin BlockOf(idx) =>
                  wb'["Sheet1"][CellOf(idx)].value = ""
      ]_vars

\* the 2 x 2 table has just been written from B2, over the template's C3
C10_Witness ==
    /\ scheme = "legacy"
    /\ pc = "fill"
    /\ idx > 1
    /\ placeholders[idx - 1].type = "table"
    /\ Fetched(idx - 1)
    /\ Len(DataOf(idx - 1)) = 2
    /\ CellOf(idx - 1) = <<2, 2>>
    /\ wb["Sheet1"][<<2, 2>>].value = "a"
    /\ wb["Sheet1"][<<3, 3>>].value = "d"

\* ------------------------------------------------------------------ C11
\* the ids of the report's current placeholders
PlaceholderIds == {placeholders[i].id : i \in 1..Len(placeholders)}

\* report.mappings without the entries under other keys
OwnMappings == [k \in DOMAIN mappings \cap PlaceholderIds |-> mappings[k]]

\* the placeholder loop over a whole list
RECURSIVE FillAll(_, _, _)
FillAll(book, phs, maps) ==
    IF phs = <<>> THEN book
    ELSE FillAll(FillPlaceholderIn(book, Head(phs), maps), Tail(phs), maps)

\* C11: in legacy generation a mapping stored under a key that is the id of
\* no current placeholder has no effect: the generation never ends raising;
\* a placeholder without a mapping under its own id is passed without a
\* fetch and without a write, whatever other mappings are stored; every
\* data_fetcher call is for a current placeholder and its own mapping; and
\* the saved workbook is the one generated from the placeholders' own
\* mappings alone.
C11_StaleMappingInert ==
    [][ /\ pc' # "raised"
        /\ (pc = "fill" /\ idx <= Len(placeholders)
            /\ placeholders[idx].id \notin DOMAIN mappings) =>
               (wb' = wb /\ fetch_log' = fetch_log)
        /\ \A i \in 1..Len(fetch_log') :
               /\ fetch_log'[i][1] \in PlaceholderIds
               /\ fetch_log'[i][2] = mappings[fetch_log'[i][1]]
        /\ pc' = "saved" =>
               out' = SaveCells(FillAll(LoadCells(template_file), placeholders,
                                        OwnMappings))
      ]_vars

\* saved, with a stale entry stored, a placeholder without a mapping that
\* kept its token and a mapped value placeholder that was fetched and filled
C11_Witness ==
    /\ scheme = "legacy"
    /\ pc = "saved"
    /\ DOMAIN mappings \ PlaceholderIds # {}
    /\ Len(fetch_log) = 1
    /\ \E i, j \in 1..Len(placeholders) :
          /\ placeholders[i].id \notin DOMAIN mappings
          /\ out["Sheet1"][CellOf(i)].value = "{{token}}"
          /\ placeholders[j].type = "value"
          /\ fetch_log[1][1] = placeholders[j].id
          /\ out["Sheet1"][CellOf(j)].value = "42"

\* --------------------------------------- _detect_placeholders, one cell
\* most fragments of a scanned cell text
MaxFragments == 3

LowerChars ==
    {"a", "b", "c", "d", "e", "f", "g", "h", "i", "j", "k", "l", "m",
     "n", "o", "p", "q", "r", "s", "t", "u", "v", "w", "x", "y", "z"}

\* \w on one character
IsWordChar(ch) == ch \in LowerChars \/ IsAlpha(ch) \/ IsDigit(ch) \/ ch = "_"

\* the text has the literal at position i
HasLiteralAt(text, i, literal) ==
    /\ i + Len(literal) - 1 <= Len(text)
    /\ SubSeq(text, i, i + Len(literal) - 1) = literal

\* \w+ is greedy: the last position of the run of word characters from i on
\* (i - 1 when there is none)
RECURSIVE WordRunEnd(_, _)
WordRunEnd(text, i) ==
    IF i <= Len(text) /\ IsWordChar(SubSeq(text, i, i))
    THEN WordRunEnd(text, i + 1)
    ELSE i - 1

\* PLACEHOLDER_PATTERN tried at position i: "{{", a type, ":", \w+, "}}";
\* "}" is no word character, so only the whole run can be the name
MatchAt(text, i) ==
    LET types == {t \in PlaceholderTypes : HasLiteralAt(text, i, "{{" \o t \o ":")}
        t == CHOOSE t \in types : TRUE
        first == i + Len("{{" \o t \o ":")
        last == WordRunEnd(text, first)
    IN  IF types # {} /\ last >= first /\ HasLiteralAt(text, last + 1, "}}")
        THEN [ok |-> TRUE, type |-> t, name |-> SubSeq(text, first, last),
              end |-> last + 2]
        ELSE [ok |-> FALSE, type |-> None, name |-> "", end |-> i]

\* findall from position i: a match is taken and the scan goes on behind it
RECURSIVE FindAllFrom(_, _)
FindAllFrom(text, i) ==
    IF i > Len(text) THEN <<>>
    ELSE LET m == MatchAt(text, i)
         IN  IF m.ok
             THEN <<[type |-> m.type, name |-> m.name]>> \o FindAllFrom(text, m.end + 1)
             ELSE FindAllFrom(text, i + 1)

\* variant: only the first match of a cell is taken
PatternSearch(text) ==
    LET all == FindAllFrom(text, 1)
    IN  IF all = <<>> THEN <<>> ELSE <<Head(all)>>

\* PLACEHOLDER_PATTERN.findall(cell.value)
PatternFindall(text) == FindAllFrom(text, 1)

\* openpyxl's get_column_letter
RECURSIVE GetColumnLetter(_)
GetColumnLetter(col_idx) ==
    IF col_idx = 0 THEN <<>>
    ELSE Append(GetColumnLetter((col_idx - 1) \div 26),
                Alphabet[((col_idx - 1) % 26) + 1])

\* str(n), digit by digit
RECURSIVE DecimalDigits(_)
DecimalDigits(n) ==
    IF n < 10 THEN <<DigitChars[n + 1]>>
    ELSE Append(DecimalDigits(n \div 10), DigitChars[(n % 10) + 1])

\* cell.coordinate
Coordinate(c) == GetColumnLetter(c[1]) \o DecimalDigits(c[2])

\* variant: the ids are counted from one in every scan
Uuid4Restart(used, k) == "u" \o ToString(k)

\* uuid.uuid4(): the k-th value after those already returned
Uuid4(used, k) == "u" \o ToString(Cardinality(used) + k)

\* the placeholders of one cell: nothing for a cell without a value ("if
\* cell.value and isinstance(cell.value, str)"; a number holds no token),
\* else one ExcelPlaceholder per match, each with a uuid4 of its own
CellPlaceholders(sheet_name, c, value, used) ==
    IF value = None \/ value = "" THEN <<>>
    ELSE LET matches == PatternFindall(value)
         IN  [k \in 1..Len(matches) |->
                [id |-> Uuid4(used, k),
                 placeholder |-> "{{" \o matches[k].type \o ":" \o
                                 matches[k].name \o "}}",
                 type |-> matches[k].type,
                 name |-> matches[k].name,
                 sheet_name |-> sheet_name,
                 cell_reference |-> Coordinate(c)]]

\* fragments of cell texts: the three kinds of token, and texts that hold
\* none (no name, a type in capitals, one closing brace, a blank in the name)
TokenFragments == {"{{table:sales}}", "{{value:total}}", "{{chart:c_1}}"}

OtherFragments ==
    {" and ", "{{value:}}", "{{Value:x}}", "{{table:a}", "{{value:a b}}", "{"}

\* the text made of the fragments
RECURSIVE Joined(_)
Joined(fragments) ==
    IF fragments = <<>> THEN "" ELSE Head(fragments) \o Joined(Tail(fragments))

\* the cell that is scanned: E7 of Sheet2
ScannedSheet == "Sheet2"
ScannedCell == <<5, 7>>

\* cell_value holds the fragments of the cell's text
InitScan ==
    /\ InitNoRequest
    /\ InitNoStore
    /\ pc = "scan"
    /\ cell_value \in SeqsUpTo(TokenFragments \cup OtherFragments, MaxFragments)
    /\ detected = <<>>
    /\ structure = <<>>
    /\ ref_text = <<>>
    /\ parsed = <<>>

\* the scan of the cell
ScanCell ==
    /\ pc = "scan"
    /\ detected' = CellPlaceholders(ScannedSheet, ScannedCell, Joined(cell_value),
                                    issued)
    /\ issued' = issued \cup {detected'[k].id : k \in 1..Len(detected')}
    /\ pc' = "scanned"
    /\ UNCHANGED <<wb, out, sheet_data, data_sources, visualization_data, idx,
                   current_row, placeholders, mappings, scheme, template_file,
                   wb_layout, out_layout, fetch_log>>
    /\ UNCHANGED <<files, templates, reports, requests, now, ops, cell_value,
                   structure, ref_text, parsed>>

SpecScan == InitScan /\ [][ScanCell]_vars

\* ------------------------------------------------------------------ C13
\* type and name of a token fragment, read off the fragment
TokenOf(fragment) ==
    CASE fragment = "{{table:sales}}" -> [type |-> "table", name |-> "sales"]
      [] fragment = "{{value:total}}" -> [type |-> "value", name |-> "total"]
      [] fragment = "{{chart:c_1}}" -> [type |-> "chart", name |-> "c_1"]

IsTokenFragment(fragment) == fragment \in TokenFragments

\* the token fragments of the cell, left to right
TokensOfCell == SelectSeq(cell_value, IsTokenFragment)

\* C13: scanning a string cell yields one placeholder per token of the
\* text, in left-to-right order, each with the token's own text, type and
\* name and all with the cell's sheet and coordinate; two tokens yield two
\* placeholders, no token yields none.
C13_OnePlaceholderPerToken ==
    pc = "scanned" =>
        /\ Len(detected) = Len(TokensOfCell)
        /\ \A k \in 1..Len(detected) :
              /\ detected[k].type = TokenOf(TokensOfCell[k]).type
              /\ detected[k].name = TokenOf(TokensOfCell[k]).name
              /\ detected[k].placeholder = TokensOfCell[k]
              /\ detected[k].sheet_name = ScannedSheet
              /\ detected[k].cell_reference = <<"E", "7">>

\* "{{table:sales}} and {{value:total}}" was scanned
C13_Witness ==
    /\ pc = "scanned"
    /\ Joined(cell_value) = "{{table:sales}} and {{value:total}}"
    /\ Len(detected) = 2
    /\ detected[1].type = "table" /\ detected[1].name = "sales"
    /\ detected[2].type = "value" /\ detected[2].name = "total"

\* ------------------------------------------------- parse_excel_template
\* ws.max_column and ws.max_row: the extent of the cells held, 0 without any
MaxColumn(ws) ==
    IF DOMAIN ws = {} THEN 0
    ELSE CHOOSE n \in {c[1] : c \in DOMAIN ws} : \A c \in DOMAIN ws : c[1] <= n

MaxRow(ws) ==
    IF DOMAIN ws = {} THEN 0
    ELSE CHOOSE n \in {c[2] : c \in DOMAIN ws} : \A c \in DOMAIN ws : c[2] <= n

\* ws.iter_rows(): every cell of rows 1..max_row and columns 1..max_column,
\* row by row, whether the sheet holds it or not
IterRows(ws) ==
    [n \in 1..(MaxRow(ws) * MaxColumn(ws)) |->
        <<((n - 1) % MaxColumn(ws)) + 1, ((n - 1) \div MaxColumn(ws)) + 1>>]

\* the values that are formulas (cell.data_type == 'f')
Formulas == {"=A1"}

\* the "font" entry: name, bold and italic where they are set (the default
\* font has a name)
FontEntry(font) ==
    [k \in {k \in {"name", "bold", "italic"} :
                \/ k = "name" /\ font.name # None
                \/ k = "bold" /\ font.bold
                \/ k = "italic" /\ font.italic} |->
        font[k]]

\* the "style" entry: the font entry when it is not empty
StyleEntry(cell) ==
    [k \in {k \in {"font"} : DOMAIN FontEntry(cell.font) # {}} |->
        FontEntry(cell.font)]

\* cell_data of one cell: value, formula and style, each only when present
CellData(cell) ==
    [k \in {k \in {"value", "formula", "style"} :
                \/ k = "value" /\ cell.value # None
                \/ k = "formula" /\ cell.value \in Formulas
                \/ k = "style" /\ DOMAIN StyleEntry(cell) # {}} |->
        IF k = "style" THEN StyleEntry(cell) ELSE cell.value]

\* "Parse cells": a record for every cell of iter_rows with non-empty data
ParsedCells(ws) ==
    LET cells == {IterRows(ws)[n] : n \in DOMAIN IterRows(ws)}
        kept == {c \in cells : DOMAIN CellData(WsCell(ws, c)) # {}}
    IN  [ref \in {Coordinate(c) : c \in kept} |->
            CellData(WsCell(ws, CoordinateToCell(ref)))]

\* str(merge_range)
RangeString(r) ==
    Coordinate(<<r[1], r[2]>>) \o <<":">> \o Coordinate(<<r[3], r[4]>>)

\* the sheets of a workbook in wb.sheetnames order
SheetNames(book) == SelectSeq(<<"Sheet1", "Sheet2">>, LAMBDA s : s \in DOMAIN book)

\* one entry of structure["sheets"]
ParsedSheet(sheet_name, ws, layout) ==
    [name |-> sheet_name,
     cells |-> ParsedCells(ws),
     merges |-> {RangeString(r) : r \in layout.merges},
     columnWidths |->
        [k \in {col - 1 : col \in DOMAIN layout.columnWidths} |->
            layout.columnWidths[k + 1] * 7],
     rowHeights |->
        [k \in {row - 1 : row \in DOMAIN layout.rowHeights} |->
            layout.rowHeights[k + 1]]]

\* parse_excel_template(file_path) on a well-formed file
ParseExcelTemplate(file) ==
    LET book == LoadCells(file)
        names == SheetNames(book)
    IN  [sheets |->
            [i \in 1..Len(names) |->
                ParsedSheet(names[i], book[names[i]], LoadLayout(file)[names[i]])]]

\* --------------------------------------------- inputs of the parser
\* what a file may hold at a cell: nothing, a value, a formula, a style only
CellContents ==
    {[value |-> "x", font |-> DefaultFont],
     [value |-> "=A1", font |-> DefaultFont],
     [value |-> None, font |-> ItalicFont]}

\* files of one sheet: each of A1, B2 and C3 is absent or has one of the
\* contents, and the sheet has no merged range or the range A1:B1
ParseInputs ==
    {[cells |-> ("Sheet1" :> [c \in held |-> contents[c]]),
      layout |-> ("Sheet1" :> [NoLayout EXCEPT !.merges = merges])] :
        held \in SUBSET {<<1, 1>>, <<2, 2>>, <<3, 3>>},
        contents \in [{<<1, 1>>, <<2, 2>>, <<3, 3>>} -> CellContents],
        merges \in {{}, {<<1, 1, 2, 1>>}}}

InitParse ==
    /\ InitRequest
    /\ InitNoStore
    /\ pc = "parse"
    /\ scheme = "none"
    /\ template_file \in ParseInputs
    /\ placeholders = <<>>
    /\ mappings = EmptyDict
    /\ sheet_data = EmptyDict
    /\ data_sources = <<>>
    /\ visualization_data = EmptyDict
    /\ InitNoCall

\* structure = parse_excel_template(file_path)
ParseTemplate ==
    /\ pc = "parse"
    /\ structure' = ParseExcelTemplate(template_file)
    /\ pc' = "parsed"
    /\ UNCHANGED <<wb, out, sheet_data, data_sources, visualization_data, idx,
                   current_row, placeholders, mappings, scheme, template_file,
                   wb_layout, out_layout, fetch_log>>
    /\ UNCHANGED <<storeVars, cell_value, detected, ref_text, parsed>>

SpecParse == InitParse /\ [][ParseTemplate]_vars

\* ------------------------------------------------------------------ C20
\* the cells of the ranges, top-left cells included
InMerge(file, s, c) == \E r \in file.layout[s].merges : c \in RangeCells(r)

\* the file holds a value (or formula) or a non-default style at the cell
HasContent(file, s, c) ==
    /\ c \in DOMAIN file.cells[s]
    /\ file.cells[s][c] # BlankCell

\* C20: the parse emits a record for a cell if and only if the cell has a
\* value, a formula or a non-default style, or lies in a merged range; a
\* fully default blank cell outside any merge has none.
C20_RecordIffContentOrMerge ==
    pc = "parsed" =>
        \A c \in (1..3) \X (1..3) :
            (Coordinate(c) \in DOMAIN structure.sheets[1].cells) <=>
                (HasContent(template_file, "Sheet1", c)
                    \/ InMerge(template_file, "Sheet1", c))

\* ------------------------------------------------------------------ C14
\* the file that wb.save wrote
SavedFile == [cells |-> out, layout |-> out_layout]

\* an overlay without a cell entry, and nothing mapped
NothingToWrite ==
    /\ \A s \in DOMAIN template_file.cells : OverlayTargets(sheet_data, s) = {}
    /\ scheme = "current" => data_sources = <<>>
    /\ scheme = "legacy" => \A i \in 1..Len(placeholders) :
                                placeholders[i].id \notin DOMAIN mappings

MergeTemplateFile ==
    [cells |-> ("Sheet1" :> ((<<1, 1>> :> [value |-> "Title", font |-> TitleFont]) @@
                             (<<4, 1>> :> [value |-> "tpl", font |-> DefaultFont]))),
     layout |-> ("Sheet1" :> [NoLayout EXCEPT !.merges = {<<1, 1, 3, 1>>}])]

\* overlays: none, an entry at D2, an entry at B1 inside the range
MergeOverlays ==
    {EmptyDict,
     [sheets |-> <<[name |-> "Sheet1", cells |-> (<<"D", "2">> :> [value |-> "ov"])]>>],
     [sheets |-> <<[name |-> "Sheet1", cells |-> (<<"B", "1">> :> [value |-> "ov"])]>>]}

\* mappings anchored at D2 and E3, beyond the range; at A2, below it; and
\* at A1, whose header runs into the range
MergeMappings ==
    {Mapping(1, "Sheet1", <<"D", "2">>, Columns2, TRUE, TRUE),
     Mapping(1, "Sheet1", <<"E", "3">>, Columns2, FALSE, TRUE),
     Mapping(1, "Sheet1", <<"A", "2">>, Columns2, FALSE, TRUE),
     Mapping(1, "Sheet1", <<"A", "1">>, Columns2, TRUE, TRUE)}

InitMerge ==
    /\ InitRequest
    /\ InitElsewhere
    /\ scheme = "current"
    /\ pc = "load"
    /\ template_file = MergeTemplateFile
    /\ sheet_data \in MergeOverlays
    /\ data_sources \in SeqsUpTo(MergeMappings, MaxMappings)
    /\ \E n \in 1..MaxDataRows : visualization_data = VisualizationData(n)
    /\ placeholders = <<>>
    /\ mappings = EmptyDict

NextCurrent ==
    \/ LoadWorkbook
    \/ ApplyOverlay
    \/ MappingBegin
    \/ WriteHeader
    \/ WriteDataRows
    \/ SaveWorkbook

SpecMerge == InitMerge /\ [][NextCurrent]_vars

\* ------------------------------------------------------------------ C15
\* C15: generation never adds, removes or changes a merged range: from the
\* load on, the workbook in memory has the template's ranges, and every
\* saved workbook has them, wherever outside the ranges its overlay and its
\* mappings wrote (a write to a merged cell ends the generation without a
\* workbook).
C15_MergesKept ==
    /\ pc \notin {"load"} =>
          \A s \in DOMAIN wb_layout :
             wb_layout[s].merges = template_file.layout[s].merges
    /\ pc = "saved" =>
          /\ DOMAIN out_layout = DOMAIN template_file.layout
          /\ \A s \in DOMAIN out_layout :
                out_layout[s].merges = template_file.layout[s].merges

\* saved with A1:C1 in place after a header at D2 and rows from D3 on
C15_Witness ==
    /\ pc = "saved"
    /\ template_file = MergeTemplateFile
    /\ \E i \in 1..Len(data_sources) : data_sources[i].start_cell = <<"D", "2">>
    /\ out["Sheet1"][<<4, 2>>].value = "Hx"
    /\ out["Sheet1"][<<4, 3>>].value = "11"
    /\ out_layout["Sheet1"].merges = {<<1, 1, 3, 1>>}

\* ------------------------------------- a whole generation, as a function
\* what is not a workbook container (load_workbook raises on it); it also
\* stands for "no workbook returned"
NoFile == [cells |-> <<>>, layout |-> <<>>]

IsWorkbook(file) == DOMAIN file.cells # {}

\* the mapping loop of generate_excel_with_data over the list ds: a mapping
\* is skipped, or raises (anchor, row 0, merged cell), or writes its header
\* and its rows
RECURSIVE ApplyMappings(_, _, _, _)
ApplyMappings(book, layout, ds, viz) ==
    IF ds = <<>> THEN [ok |-> TRUE, book |-> book]
    ELSE LET mapping == Head(ds)
             sheet_name == mapping.sheet_name
             columns == mapping.columns
             anchor == ParseStartCell(mapping.start_cell)
             with_header == mapping.include_header /\ columns # <<>>
             data_rows == RowsToWrite(mapping, viz[mapping.visualization_id])
             first_row == anchor.row + (IF with_header THEN 1 ELSE 0)
             raises ==
                 \/ ~anchor.ok
                 \/ with_header /\ ~CellOk(<<anchor.col, anchor.row>>)
                 \/ with_header /\ ~Writable(layout, sheet_name,
                                     TargetCells(anchor.col, columns, {anchor.row}))
                 \/ columns # <<>> /\ ~CellOk(<<anchor.col, first_row>>)
                 \/ ~Writable(layout, sheet_name,
                              TargetCells(anchor.col, columns,
                                          first_row .. (first_row + Len(data_rows) - 1)))
             headed == IF with_header
                       THEN HeaderWrites(book[sheet_name], columns, 0,
                                         anchor.col, anchor.row)
                       ELSE book[sheet_name]
             filled == DataWrites(headed, columns, anchor.col, first_row, data_rows)
         IN  IF MappingSkipped(mapping, viz, book)
             THEN ApplyMappings(book, layout, Tail(ds), viz)
             ELSE IF raises THEN [ok |-> FALSE, book |-> book]
             ELSE ApplyMappings([book EXCEPT ![sheet_name] = filled], layout,
                                Tail(ds), viz)

\* generate_excel_with_data: the bytes returned, or an exception
GenerateExcelWithData(file, sd, ds, viz) ==
    LET book == LoadCells(file)
        layout == LoadLayout(file)
        overlay_ok == \A s \in DOMAIN book :
                         Writable(layout, s, OverlayTargets(sd, s))
        mapped == ApplyMappings(ApplyCellModifications(book, sd), layout, ds, viz)
    IN  IF IsWorkbook(file) /\ overlay_ok /\ mapped.ok
        THEN [outcome |-> "ok",
              file |-> [cells |-> SaveCells(mapped.book),
                        layout |-> SaveLayout(layout)]]
        ELSE [outcome |-> "error", file |-> NoFile]

\* the stepwise generation and the function agree
StepwiseAgrees ==
    LET whole == GenerateExcelWithData(template_file, sheet_data, data_sources,
                                       visualization_data)
    IN  /\ (scheme = "current" /\ pc = "saved") =>
              (whole.outcome = "ok" /\ whole.file = SavedFile)
        /\ (scheme = "current" /\ pc = "raised") => whole.outcome = "error"
        /\ (scheme = "current" /\ whole.outcome = "error") => pc # "saved"

\* ------------------------------------------------------------ the store
\* operations and clock ticks served in one behaviour
MaxOps == 1

\* the requests that may be in flight together
Requests == {1, 2}

\* _detect_placeholders: the sheets in workbook order, each cell by cell, a
\* fresh uuid4 for every placeholder
RECURSIVE DetectFrom(_, _, _, _)
DetectFrom(book, names, n, used) ==
    IF names = <<>> THEN <<>>
    ELSE LET sheet_name == Head(names)
             ws == book[sheet_name]
             cells == IterRows(ws)
         IN  IF n > Len(cells) THEN DetectFrom(book, Tail(names), 1, used)
             ELSE LET found == CellPlaceholders(sheet_name, cells[n],
                                                WsCell(ws, cells[n]).value, used)
                      ids == {found[k].id : k \in 1..Len(found)}
                  IN  found \o DetectFrom(book, names, n + 1, used \cup ids)

DetectPlaceholders(file, used) ==
    DetectFrom(LoadCells(file), SheetNames(LoadCells(file)), 1, used)

\* legacy templates a client uploads: tokens in A1 and B2 of Sheet1, and a
\* token on the second sheet
LegacyUploadA ==
    [cells |-> ("Sheet1" :>
                  ((<<1, 1>> :> [value |-> "{{value:total}}", font |-> DefaultFont]) @@
                   (<<2, 2>> :> [value |-> "{{chart:c_1}} and {{value:total}}",
                                 font |-> ItalicFont]))),
     layout |-> ("Sheet1" :> NoLayout)]

LegacyUploadB ==
    [cells |-> ("Sheet1" :> (<<1, 1>> :> [value |-> "Report B", font |-> TitleFont])) @@
               ("Sheet2" :> (<<1, 1>> :> [value |-> "{{value:total}}",
                                          font |-> DefaultFont])),
     layout |-> ("Sheet1" :> NoLayout) @@ ("Sheet2" :> NoLayout)]

\* a row of excel_template_reports as the model's column defaults leave it
NoRow ==
    [name |-> "", template_id |-> 0, template_file_path |-> None, template_filename |-> None,
     placeholders |-> <<>>, mappings |-> EmptyDict, sheet_data |-> EmptyDict,
     data_sources |-> <<>>, is_public |-> FALSE, share_token |-> None]

\* every placeholder of the row mapped to one source
MapAll(row, source_id) ==
    [id \in {row.placeholders[k].id : k \in 1..Len(row.placeholders)} |->
        [type |-> "visualization", source_id |-> source_id]]

\* a legacy report as upload_template and update_mappings leave it
LegacyRow(path, file, used) ==
    LET scanned == [NoRow EXCEPT !.template_file_path = path,
                                 !.template_filename = "a.xlsx",
                                 !.placeholders = DetectPlaceholders(file, used)]
    IN  [scanned EXCEPT !.mappings = MapAll(scanned, 2)]

\* what the download route fetched for the report's data sources
FetchedData == VisualizationData(1)

\* the outcome of a generation of the report row on the store: the current
\* scheme for a row with a template_id, the legacy one otherwise
Generate(fs, ts, row) ==
    LET failed == [outcome |-> "error", file |-> NoFile]
    IN  IF row.template_id # 0
        THEN IF row.template_id \notin DOMAIN ts THEN failed
             ELSE LET path == ts[row.template_id].file_path
                  IN  IF path = None \/ path \notin DOMAIN fs THEN failed
                      ELSE GenerateExcelWithData(fs[path], row.sheet_data,
                                                 row.data_sources, FetchedData)
        ELSE LET path == row.template_file_path
             IN  IF path = None \/ path \notin DOMAIN fs THEN failed
                 ELSE IF ~IsWorkbook(fs[path]) THEN failed
                 ELSE [outcome |-> "ok",
                       file |-> [cells |-> SaveCells(FillAll(LoadCells(fs[path]),
                                                             row.placeholders,
                                                             row.mappings)),
                                 layout |-> SaveLayout(LoadLayout(fs[path]))]]

\* os.remove(path) where the file exists
Remove(fs, path) == [p \in DOMAIN fs \ {path} |-> fs[p]]

\* the id of the next row of a table
NextId(rows) ==
    IF DOMAIN rows = {} THEN 1
    ELSE 1 + CHOOSE n \in DOMAIN rows : \A m \in DOMAIN rows : m <= n

\* a request that was not made yet
NoRequest ==
    [pc |-> "idle", report |-> 0, row |-> NoRow, outcome |-> None,
     file |-> NoFile, filename |-> None, peers |-> {}]

\* two templates with their files, a report on each, the second of them
\* shared, two legacy reports with templates of the same file name, and a
\* duplicate of the first of them
InitStore ==
    /\ InitNoRequest
    /\ InitNoCall
    /\ pc = "store"
    /\ now = 0
    /\ LET row3 == [LegacyRow("3_0_a.xlsx", LegacyUploadA, {"u1", "u2"})
                    EXCEPT !.name = "Stock"]
           row4 == [LegacyRow("4_0_a.xlsx", LegacyUploadB,
                              {"u1", "u2", "u3", "u4", "u5"})
                    EXCEPT !.name = "Staff"]
       IN  /\ files = ("u1.xlsx" :> TemplateFile) @@ ("u2.xlsx" :> MergeTemplateFile) @@
                      ("3_0_a.xlsx" :> LegacyUploadA) @@
                      ("4_0_a.xlsx" :> LegacyUploadB) @@
                      ("copy_0_a.xlsx" :> LegacyUploadA)
           /\ templates =
                (1 :> [name |-> "t1", file_path |-> "u1.xlsx", file_name |-> "t1.xlsx",
                       structure |-> ParseExcelTemplate(TemplateFile)]) @@
                (2 :> [name |-> "t2", file_path |-> "u2.xlsx", file_name |-> "t2.xlsx",
                       structure |-> ParseExcelTemplate(MergeTemplateFile)])
           /\ reports =
                (1 :> [NoRow EXCEPT !.name = "Q1 Sales", !.template_id = 1,
                          !.data_sources = <<Mapping(1, "Sheet1", <<"B", "2">>,
                                                     Columns2, TRUE, TRUE)>>]) @@
                (2 :> [NoRow EXCEPT !.name = "Costs", !.template_id = 2,
                          !.is_public = TRUE, !.share_token = "token0",
                          !.data_sources = <<Mapping(1, "Sheet1", <<"D", "2">>,
                                                     Columns2, TRUE, FALSE)>>]) @@
                (3 :> row3) @@ (4 :> row4) @@
                (5 :> [row3 EXCEPT !.name = "Stock (Copy)",
                                  !.template_file_path = "copy_0_a.xlsx"])
    /\ issued = {"u1", "u2", "u3", "u4", "u5", "u6"}
    /\ requests = [g \in Requests |-> NoRequest]
    /\ ops = [n |-> 0, op |-> "none", reports |-> {}, templates |-> {}, ok |-> TRUE]

\* the files clients upload: two workbooks and one that is no workbook
Uploads == {LegacyUploadA, LegacyUploadB, NoFile}

\* one more operation was served: its name, the reports and templates it
\* was called on or created, and whether it went through
Served(op, rs, ts, ok) ==
    /\ ops.n < MaxOps
    /\ ops' = [n |-> ops.n + 1, op |-> op, reports |-> rs, templates |-> ts,
               ok |-> ok]
    /\ UNCHANGED <<genVars, pureVars>>

\* unique_filename = f"{uuid.uuid4()}{file_ext}"
UploadPath(t, used) == Uuid4(used, 1) \o ".xlsx"

\* variant: the file of a failed parse stays on disk
UploadTemplateFileNoCleanUp(t, content) ==
    LET path == UploadPath(t, issued)
        written == (path :> content) @@ files
    IN  /\ Served("upload_template_file", {}, {t}, IsWorkbook(content))
        /\ t \in DOMAIN templates
        /\ issued' = issued \cup {Uuid4(issued, 1)}
        /\ files' = written
        /\ IF IsWorkbook(content)
           THEN templates' = [templates EXCEPT
                                 ![t].file_path = path,
                                 ![t].file_name = "upload.xlsx",
                                 ![t].structure = ParseExcelTemplate(content)]
           ELSE UNCHANGED templates
        /\ UNCHANGED <<reports, requests, now>>

\* ExcelTemplateService.upload_template_file: the file is written under a
\* fresh uuid name; when the parse raises, the file is removed again and the
\* row is left alone; an earlier file of the template stays on disk
UploadTemplateFile(t, content) ==
    LET path == UploadPath(t, issued)
        written == (path :> content) @@ files
    IN  /\ Served("upload_template_file", {}, {t}, IsWorkbook(content))
        /\ t \in DOMAIN templates
        /\ issued' = issued \cup {Uuid4(issued, 1)}
        /\ IF IsWorkbook(content)
           THEN /\ files' = written
                /\ templates' = [templates EXCEPT
                                    ![t].file_path = path,
                                    ![t].file_name = "upload.xlsx",
                                    ![t].structure = ParseExcelTemplate(content)]
           ELSE /\ files' = Remove(written, path)
                /\ UNCHANGED templates
        /\ UNCHANGED <<reports, requests, now>>

\* variant: the update also clears the structure
UpdateTemplateAnyField(t, name) ==
    /\ Served("update_template", {}, {t}, TRUE)
    /\ t \in DOMAIN templates
    /\ templates' = [templates EXCEPT ![t].name = name, ![t].structure = EmptyDict]
    /\ UNCHANGED <<files, reports, requests, now, issued>>

\* ExcelTemplateService.update_template: the fields of ExcelTemplateUpdate
UpdateTemplate(t, name) ==
    /\ Served("update_template", {}, {t}, TRUE)
    /\ t \in DOMAIN templates
    /\ templates' = [templates EXCEPT ![t].name = name]
    /\ UNCHANGED <<files, reports, requests, now, issued>>

\* ExcelTemplateService.delete_template: the file is removed, then the row
\* is deleted; where the database enforces the foreign key of a report on
\* the template, the delete fails and the row stays
DeleteTemplate(t, enforced) ==
    /\ ops.n < MaxOps
    /\ t \in DOMAIN templates
    /\ files' = Remove(files, templates[t].file_path)
    /\ LET referenced == \E r \in DOMAIN reports : reports[r].template_id = t
       IN  IF enforced /\ referenced
           THEN /\ UNCHANGED templates
                /\ Served("delete_template", {}, {t}, FALSE)
           ELSE /\ templates' = [u \in DOMAIN templates \ {t} |-> templates[u]]
                /\ Served("delete_template", {}, {t}, TRUE)
    /\ UNCHANGED <<reports, requests, now, issued>>

\* ExcelReportService.create_report (current scheme)
CreateReport(t, ds) ==
    /\ Served("create_report", {NextId(reports)}, {}, TRUE)
    /\ t \in DOMAIN templates
    /\ reports' = (NextId(reports) :>
                     [NoRow EXCEPT !.name = "New Report", !.template_id = t,
                                   !.data_sources = ds]) @@ reports
    /\ UNCHANGED <<files, templates, requests, now, issued>>

\* the updates clients send: ExcelReportUpdate with the fields that are set
ReportUpdates ==
    {[sheet_data |-> EmptyDict], [sheet_data |-> OverlayA],
     [is_public |-> TRUE], [is_public |-> FALSE]}

\* ExcelReportService.update_report (current scheme): every field that is
\* set in the update is assigned to the row
UpdateReport(r, update_data) ==
    /\ Served("update_report", {r}, {}, TRUE)
    /\ r \in DOMAIN reports /\ reports[r].template_id # 0
    /\ reports' = [reports EXCEPT
                      ![r] = [field \in DOMAIN @ |->
                                IF field \in DOMAIN update_data
                                THEN update_data[field] ELSE @[field]]]
    /\ UNCHANGED <<files, templates, requests, now, issued>>

\* ExcelReportService.delete_report (current scheme): the row only
DeleteReport(r) ==
    /\ Served("delete_report", {r}, {}, TRUE)
    /\ r \in DOMAIN reports /\ reports[r].template_id # 0
    /\ reports' = [q \in DOMAIN reports \ {r} |-> reports[q]]
    /\ UNCHANGED <<files, templates, requests, now, issued>>

\* generate_share_token: secrets.token_urlsafe, a value not returned before
GenerateShareToken(r) ==
    /\ Served("generate_share_token", {r}, {}, TRUE)
    /\ r \in DOMAIN reports /\ reports[r].template_id # 0
    /\ reports' = [reports EXCEPT ![r].share_token = "token" \o ToString(ops.n + 1),
                                  ![r].is_public = TRUE]
    /\ UNCHANGED <<files, templates, requests, now, issued>>

\* variant: the report is made private and keeps its token
RevokeShareKeepsToken(r) ==
    /\ Served("revoke_share", {r}, {}, TRUE)
    /\ r \in DOMAIN reports /\ reports[r].template_id # 0
    /\ reports' = [reports EXCEPT ![r].is_public = FALSE]
    /\ UNCHANGED <<files, templates, requests, now, issued>>

\* get_report_by_share_token: the row with this token that is public, or 0
\* for None; a null share_token equals no token, and the column is unique
GetReportByShareToken(rows, share_token) ==
    LET found == {r \in DOMAIN rows : /\ rows[r].share_token # None
                                      /\ rows[r].share_token = share_token
                                      /\ rows[r].is_public}
    IN  IF found = {} THEN 0 ELSE CHOOSE r \in found : TRUE

\* revoke_share
RevokeShare(r) ==
    /\ Served("revoke_share", {r}, {}, TRUE)
    /\ r \in DOMAIN reports /\ reports[r].template_id # 0
    /\ reports' = [reports EXCEPT ![r].share_token = None, ![r].is_public = FALSE]
    /\ UNCHANGED <<files, templates, requests, now, issued>>

\* legacy upload_template: the old file is removed, the new one written
\* under "<report id>_<timestamp>_<filename>", then scanned; when the scan
\* raises nothing is committed
UploadTemplate(r, content) ==
    LET old == reports[r].template_file_path
        path == ToString(r) \o "_" \o ToString(now) \o "_" \o "a.xlsx"
        found == DetectPlaceholders(content, issued)
    IN  /\ Served("upload_template", {r}, {}, IsWorkbook(content))
        /\ r \in DOMAIN reports /\ reports[r].template_id = 0
        /\ files' = (path :> content) @@ Remove(files, old)
        /\ IF IsWorkbook(content)
           THEN /\ reports' = [reports EXCEPT
                                  ![r].template_file_path = path,
                                  ![r].template_filename = "a.xlsx",
                                  ![r].placeholders = found,
                                  ![r].mappings = EmptyDict]
                /\ issued' = issued \cup
                       {reports'[r].placeholders[k].id :
                           k \in 1..Len(reports'[r].placeholders)}
           ELSE UNCHANGED <<reports, issued>>
        /\ UNCHANGED <<templates, requests, now>>

\* legacy update_mappings: the dict is stored as it comes
UpdateMappings(r, source_id) ==
    /\ Served("update_mappings", {r}, {}, TRUE)
    /\ r \in DOMAIN reports /\ reports[r].template_id = 0
    /\ reports' = [reports EXCEPT ![r].mappings = MapAll(reports[r], source_id)]
    /\ UNCHANGED <<files, templates, requests, now, issued>>

\* legacy duplicate_report: the file is copied to "copy_<timestamp>_<filename>"
\* and the new row takes over placeholders and mappings; a file copied onto
\* itself is truncated by open(.., 'wb') before it is read
DuplicateReport(r) ==
    LET original == reports[r]
        copied == original.template_file_path \in DOMAIN files
        new_file_path == "copy_" \o ToString(now) \o "_" \o original.template_filename
    IN  /\ Served("duplicate_report", {r, NextId(reports)}, {}, TRUE)
        /\ r \in DOMAIN reports /\ reports[r].template_id = 0
        /\ files' = IF ~copied THEN files
                    ELSE IF new_file_path = original.template_file_path
                    THEN (new_file_path :> NoFile) @@ files
                    ELSE (new_file_path :> files[original.template_file_path]) @@ files
        /\ reports' = (NextId(reports) :>
                         [NoRow EXCEPT
                             !.name = original.name \o " (Copy)",
                             !.template_file_path =
                                 IF copied THEN new_file_path ELSE None,
                             !.template_filename = original.template_filename,
                             !.placeholders = original.placeholders,
                             !.mappings = original.mappings]) @@ reports
        /\ UNCHANGED <<templates, requests, now, issued>>

\* legacy delete_report: the file and the row
LegacyDeleteReport(r) ==
    /\ Served("legacy_delete_report", {r}, {}, TRUE)
    /\ r \in DOMAIN reports /\ reports[r].template_id = 0
    /\ files' = Remove(files, reports[r].template_file_path)
    /\ reports' = [q \in DOMAIN reports \ {r} |-> reports[q]]
    /\ UNCHANGED <<templates, requests, now, issued>>

\* a second passes
Tick ==
    /\ Served("tick", {}, {}, TRUE)
    /\ now' = now + 1
    /\ UNCHANGED <<files, templates, reports, requests, issued>>

\* a generate / download request arrives and reads its report
StartRequest(g, r) ==
    /\ requests[g].pc = "idle"
    /\ \A h \in Requests : h < g => requests[h].pc # "idle"
    /\ r \in DOMAIN reports
    /\ requests' = [requests EXCEPT
                       ![g] = [NoRequest EXCEPT !.pc = "read", !.report = r,
                                                !.row = reports[r]]]
    /\ UNCHANGED <<genVars, pureVars, files, templates, reports, now, issued, ops>>

\* what the request gets when it generates now: both routes look the report
\* up again, then the template is loaded and filled
Result(g) ==
    IF requests[g].report \notin DOMAIN reports
    THEN [outcome |-> "error", file |-> NoFile]
    ELSE Generate(files, templates, requests[g].row)

\* str.replace(' ', '_')
RECURSIVE ReplaceSpaces(_)
ReplaceSpaces(text) ==
    IF Len(text) = 0 THEN ""
    ELSE (IF SubSeq(text, 1, 1) = " " THEN "_" ELSE SubSeq(text, 1, 1))
         \o ReplaceSpaces(SubSeq(text, 2, Len(text)))

\* datetime.now().strftime('%Y%m%d_%H%M%S'), the clock counting the seconds
\* of one minute
Strftime(t) ==
    "20240101_0000" \o (IF t < 10 THEN "0" ELSE "") \o ToString(t)

\* the name of the file in the Content-Disposition header: the download
\* route of the current scheme builds it from the name alone, the legacy
\* generate_excel from the name and the time
Filename(row, t) ==
    IF row.template_id # 0
    THEN ReplaceSpaces(row.name) \o ".xlsx"
    ELSE row.name \o "_" \o Strftime(t) \o ".xlsx"

\* the request is answered
Answered(g, result) ==
    [requests[g] EXCEPT !.pc = "done",
                        !.outcome = result.outcome, !.file = result.file,
                        !.filename = IF result.outcome = "ok"
                                     THEN Filename(requests[g].row, now)
                                     ELSE None,
                        !.peers = {h \in Requests \ {g} : requests[h].pc = "read"}]

\* variant: the saved workbook is written over the template file
RunRequestInPlace(g) ==
    LET row == requests[g].row
        path == IF row.template_id # 0 THEN templates[row.template_id].file_path
                ELSE row.template_file_path
    IN  /\ requests[g].pc = "read"
        /\ requests' = [requests EXCEPT ![g] = Answered(g, Result(g))]
        /\ files' = IF Result(g).outcome = "ok"
                    THEN (path :> Result(g).file) @@ files
                    ELSE files
        /\ UNCHANGED <<genVars, pureVars, templates, reports, now, issued, ops>>

\* variant: a generation that raises takes the requests in flight with it
RunRequestCrash(g) ==
    /\ requests[g].pc = "read"
    /\ requests' = [h \in Requests |->
                      IF h = g \/ (Result(g).outcome = "error" /\
                                   requests[h].pc = "read")
                      THEN Answered(h, Result(g))
                      ELSE requests[h]]
    /\ UNCHANGED <<genVars, pureVars, files, templates, reports, now, issued, ops>>

\* the request generates: the workbook, or an error response
RunRequest(g) ==
    /\ requests[g].pc = "read"
    /\ requests' = [requests EXCEPT ![g] = Answered(g, Result(g))]
    /\ UNCHANGED <<genVars, pureVars, files, templates, reports, now, issued, ops>>

NextStore ==
    \/ \E t \in DOMAIN templates, content \in Uploads : UploadTemplateFile(t, content)
    \/ \E t \in DOMAIN templates : UpdateTemplate(t, "renamed")
    \/ \E t \in DOMAIN templates, enforced \in BOOLEAN : DeleteTemplate(t, enforced)
    \/ \E t \in DOMAIN templates :
          CreateReport(t, <<Mapping(1, "Sheet1", <<"A", "1">>, Columns2, TRUE, TRUE)>>)
    \/ \E r \in DOMAIN reports, update_data \in ReportUpdates :
          UpdateReport(r, update_data)
    \/ \E r \in DOMAIN reports : DeleteReport(r)
    \/ \E r \in DOMAIN reports : GenerateShareToken(r)
    \/ \E r \in DOMAIN reports : RevokeShare(r)
    \/ \E r \in DOMAIN reports, content \in Uploads : UploadTemplate(r, content)
    \/ \E r \in DOMAIN reports, source_id \in {1, 2} : UpdateMappings(r, source_id)
    \/ \E r \in DOMAIN reports : DuplicateReport(r)
    \/ \E r \in DOMAIN reports : LegacyDeleteReport(r)
    \/ Tick
    \/ \E g \in Requests, r \in DOMAIN reports : StartRequest(g, r)
    \/ \E g \in Requests : RunRequest(g)

SpecStore == InitStore /\ [][NextStore]_vars

\* ------------------------------------------------------------------ C12
\* the ids of a list of placeholders
IdsOf(phs) == {phs[k].id : k \in 1..Len(phs)}

\* a placeholder without its id
Token(ph) ==
    [placeholder |-> ph.placeholder, type |-> ph.type, name |-> ph.name,
     sheet_name |-> ph.sheet_name, cell_reference |-> ph.cell_reference]

\* C12: after a successful upload_template on a report, report.placeholders
\* is exactly what the scan of the newly uploaded file detects (token, type,
\* name, sheet and cell, in scan order), the ids are pairwise distinct, none
\* of them was issued before the upload, so none is the id of a placeholder
\* any report had before, and the mappings of the previous template are gone.
C12_UploadReplacesPlaceholders ==
    [][\A r \in DOMAIN reports :
          (ops'.n = ops.n + 1 /\ ops'.op = "upload_template" /\ ops'.reports = {r}
           /\ ops'.ok) =>
             LET new == reports'[r].placeholders
                 file == files'[reports'[r].template_file_path]
                 scan == DetectPlaceholders(file, {})
             IN  /\ [k \in 1..Len(new) |-> Token(new[k])] =
                    [k \in 1..Len(scan) |-> Token(scan[k])]
                 /\ Cardinality(IdsOf(new)) = Len(new)
                 /\ IdsOf(new) \cap issued = {}
                 /\ \A q \in DOMAIN reports :
                       IdsOf(new) \cap IdsOf(reports[q].placeholders) = {}
                 /\ reports'[r].mappings = EmptyDict
                 /\ IdsOf(new) \subseteq issued'
      ]_vars

\* report 3 was uploaded the file it already had: the same three tokens
\* under three new ids
C12_Witness ==
    /\ ops.op = "upload_template" /\ ops.ok /\ ops.reports = {3}
    /\ Len(reports[3].placeholders) = 3
    /\ [k \in 1..3 |-> Token(reports[3].placeholders[k])] =
       [k \in 1..3 |-> Token(reports[5].placeholders[k])]
    /\ IdsOf(reports[3].placeholders) \cap IdsOf(reports[5].placeholders) = {}

\* ------------------------------------------------------------------ C16
\* C16: generation is read-only over the stored state: a step of a generate
\* or download request, whether it ends in a workbook or in an error,
\* changes no file and no row of a template or a report, so its output is
\* stored nowhere; and requests for the same report that are answered
\* before any operation on the store was served all get the one output a
\* single generation of that report produces.
C16_GenerationReadOnly ==
    [][/\ (requests' # requests) => UNCHANGED <<files, templates, reports>>
       /\ \A g \in Requests, h \in Requests :
             (/\ ops'.n = 0
              /\ requests'[g].pc = "done" /\ requests'[h].pc = "done"
              /\ requests'[g].report = requests'[h].report) =>
                LET single == Generate(files', templates',
                                       reports'[requests'[g].report])
                IN  /\ requests'[g].outcome = single.outcome
                    /\ requests'[g].file = single.file
                    /\ requests'[h].outcome = requests'[g].outcome
                    /\ requests'[h].file = requests'[g].file
      ]_vars

\* two downloads of report 1 in flight together, both answered with the
\* same workbook, the template file still the uploaded one
C16_Witness ==
    /\ ops.n = 0
    /\ requests[1].pc = "done" /\ requests[2].pc = "done"
    /\ requests[1].report = 1 /\ requests[2].report = 1
    /\ 2 \in requests[1].peers
    /\ requests[1].outcome = "ok"
    /\ requests[1].file # TemplateFile
    /\ requests[2].file = requests[1].file
    /\ files["u1.xlsx"] = TemplateFile

\* ------------------------------------------------------------------ C17
\* C17: an operation that concerns other reports and another template
\* leaves the output of a generation unchanged: for every report that the
\* served operation was not called on, did not create, and whose template it
\* was not called on, a generation after the operation returns what a
\* generation before it returned. (A request reads its report when it
\* arrives and the template when it generates, so under such interleavings
\* its output is the one it produces alone.)
C17_OutputIndependent ==
    [][(ops'.n = ops.n + 1) =>
          \A r \in DOMAIN reports \cap DOMAIN reports' :
             (r \notin ops'.reports /\ reports[r].template_id \notin ops'.templates) =>
                Generate(files', templates', reports'[r]) =
                Generate(files, templates, reports[r])
      ]_vars

\* ------------------------------------------------------------------ C18
\* the template file of the report row can be located and opened
TemplateOpens(row) ==
    LET path == IF row.template_id = 0 THEN row.template_file_path
                ELSE IF row.template_id \in DOMAIN templates
                THEN templates[row.template_id].file_path
                ELSE None
    IN  path \in DOMAIN files /\ IsWorkbook(files[path])

\* C18: a generation whose template file cannot be located or opened when
\* it generates ends in an error response without a workbook; that step
\* answers no other request and changes nothing any other request reads, and
\* every request is answered with the outcome of its own report alone,
\* whatever happened to the requests in flight with it.
C18_MissingFileFailsAlone ==
    [][\A g \in Requests :
          (requests[g].pc = "read" /\ requests'[g].pc = "done") =>
             /\ ~TemplateOpens(requests[g].row) =>
                   /\ requests'[g].outcome = "error"
                   /\ requests'[g].file = NoFile
             /\ \A h \in Requests \ {g} : requests'[h] = requests[h]
             /\ UNCHANGED <<files, templates, reports>>
             /\ requests'[g].outcome = Result(g).outcome
             /\ requests'[g].file = Result(g).file
      ]_vars

\* the file of report 1's template is gone and its download failed while a
\* generation of report 5 was in flight, which then returned its workbook
C18_Witness ==
    /\ requests[1].pc = "done" /\ requests[1].report = 1
    /\ ~TemplateOpens(requests[1].row)
    /\ requests[1].outcome = "error" /\ requests[1].file = NoFile
    /\ 2 \in requests[1].peers
    /\ requests[2].pc = "done" /\ requests[2].report = 5
    /\ requests[2].outcome = "ok" /\ requests[2].file # NoFile

\* ------------------------------------------------------------------ C19
\* C19: the stored structure of a template changes only in a successful
\* upload_template_file for that template id, and is then the parse of the
\* file now stored for the template, whatever it was before; update_template,
\* the operations on reports, sharing and generation leave it as it is.
C19_StructureOnlyByUpload ==
    [][\A t \in DOMAIN templates \cap DOMAIN templates' :
          /\ (templates'[t].structure # templates[t].structure) =>
                /\ ops'.n = ops.n + 1
                /\ ops'.op = "upload_template_file"
                /\ ops'.templates = {t}
                /\ ops'.ok
          /\ (ops'.n = ops.n + 1 /\ ops'.op = "upload_template_file"
              /\ ops'.templates = {t} /\ ops'.ok) =>
                /\ templates'[t].file_path \in DOMAIN files'
                /\ templates'[t].structure =
                      ParseExcelTemplate(files'[templates'[t].file_path])
      ]_vars

\* template 1 was uploaded the two-sheet file: its structure is the parse of
\* that file and no longer the parse of the first one
C19_Witness ==
    /\ ops.op = "upload_template_file" /\ ops.ok /\ ops.templates = {1}
    /\ templates[1].structure = ParseExcelTemplate(LegacyUploadB)
    /\ templates[1].structure # ParseExcelTemplate(TemplateFile)
    /\ Len(templates[1].structure.sheets) = 2

\* ------------------------------- cell references and column letters
\* longest text given as a reference
MaxRefLen == 4

\* the characters the texts are made of
RefChars == {"A", "B", "Z", "0", "1", "2"}

\* the anchor parse of _fill_table_data: the letters joined make the
\* column, the digits joined the row; int raises without a digit
TableAnchor(start_cell) ==
    LET col_letter == SelectSeq(start_cell, IsAlpha)
        digits == SelectSeq(start_cell, IsDigit)
    IN  IF IntStringOk(digits)
        THEN [ok |-> TRUE, col |-> GetColumnIndex(col_letter), row |-> PyInt(digits)]
        ELSE [ok |-> FALSE, col |-> 0, row |-> 0]

InitRef ==
    /\ InitNoRequest
    /\ InitNoStore
    /\ pc = "given"
    /\ cell_value = <<>>
    /\ detected = <<>>
    /\ structure = <<>>
    /\ ref_text \in SeqsUpTo(RefChars, MaxRefLen)
    /\ parsed = <<>>

\* the text is parsed as the anchor of a mapping and of a legacy table; an
\* anchor in row 0 (or column 0) is refused by ws.cell
ParseRef ==
    /\ pc = "given"
    /\ LET anchor == ParseStartCell(ref_text)
           table == TableAnchor(ref_text)
       IN  parsed' = [mapping |-> [anchor EXCEPT !.ok = anchor.ok /\ anchor.row >= 1],
                      table |-> [table EXCEPT
                                    !.ok = table.ok /\ table.row >= 1 /\ table.col >= 1]]
    /\ pc' = "parsed"
    /\ UNCHANGED <<wb, out, sheet_data, data_sources, visualization_data, idx,
                   current_row, placeholders, mappings, scheme, template_file,
                   wb_layout, out_layout, fetch_log>>
    /\ UNCHANGED <<storeVars, cell_value, detected, structure, ref_text>>

\* the text, a column letter string, is converted to its index and back
ConvertColumn ==
    /\ pc = "given"
    /\ ref_text # <<>> /\ \A i \in 1..Len(ref_text) : IsAlpha(ref_text[i])
    /\ parsed' = [index |-> GetColumnIndex(ref_text),
                  letters |-> GetColumnLetter(GetColumnIndex(ref_text))]
    /\ pc' = "converted"
    /\ UNCHANGED <<wb, out, sheet_data, data_sources, visualization_data, idx,
                   current_row, placeholders, mappings, scheme, template_file,
                   wb_layout, out_layout, fetch_log>>
    /\ UNCHANGED <<storeVars, cell_value, detected, structure, ref_text>>

NextRef == ParseRef \/ ConvertColumn

SpecRef == InitRef /\ [][NextRef]_vars

\* ------------------------------------------------------------------ C21
\* a non-empty run of letters followed by a non-empty run of digits
WellFormedRef(text) ==
    \E k \in 1..(Len(text) - 1) :
        /\ \A i \in 1..k : IsAlpha(text[i])
        /\ \A i \in (k + 1)..Len(text) : IsDigit(text[i])

\* C21: the parse of a cell reference, for a mapping anchor and for a legacy
\* table anchor, yields a cell exactly for a non-empty run of letters
\* followed by a non-empty run of digits whose row is at least 1, namely
\* the column of the letters and the row of the digits; every other text is
\* refused and no cell is derived from it.
C21_RefAcceptedIffWellFormed ==
    pc = "parsed" =>
        LET letters == SelectSeq(ref_text, IsAlpha)
            digits == SelectSeq(ref_text, IsDigit)
            valid == WellFormedRef(ref_text) /\ PyInt(digits) >= 1
        IN  /\ parsed.mapping.ok <=> valid
            /\ parsed.table.ok <=> valid
            /\ valid => /\ parsed.mapping.col = GetColumnIndex(letters)
                        /\ parsed.mapping.row = PyInt(digits)
                        /\ parsed.table.col = parsed.mapping.col
                        /\ parsed.table.row = parsed.mapping.row

\* ------------------------------------------------------------------ C22
\* C22: the conversion of column letters to an index is base-26 numeration
\* without a zero digit (A = 1, Z = 26, AA = 27, AZ = 52, BA = 53), no two
\* letter strings have the same index, and the conversion of the index back
\* to letters returns the letters it came from.
C22_ColumnLettersRoundTrip ==
    pc = "converted" =>
        /\ parsed.letters = ref_text
        /\ parsed.index >= 1
        /\ ref_text = <<"A">> => parsed.index = 1
        /\ ref_text = <<"Z">> => parsed.index = 26
        /\ ref_text = <<"A", "A">> => parsed.index = 27
        /\ ref_text = <<"A", "Z">> => parsed.index = 52
        /\ ref_text = <<"B", "A">> => parsed.index = 53
        /\ Len(ref_text) > 1 =>
              parsed.index = 26 * GetColumnIndex(SubSeq(ref_text, 1, Len(ref_text) - 1))
                             + LetterValue(ref_text[Len(ref_text)])
        /\ \A other \in SeqsUpTo({"A", "B", "Z"}, Len(ref_text)) :
              (other # <<>> /\ GetColumnIndex(other) = parsed.index) =>
                 other = ref_text

\* BA is column 53 and 53 is BA
C22_Witness ==
    /\ pc = "converted"
    /\ ref_text = <<"B", "A">>
    /\ parsed.index = 53
    /\ parsed.letters = <<"B", "A">>

\* ------------------------------------------------------------------ C23
\* C23: every generation or download that succeeds, in either scheme,
\* returns the file under the name "<report name>_<timestamp>.xlsx"
C23_FilenameHasTimestamp ==
    [][\A g \in Requests :
          (requests[g].pc = "read" /\ requests'[g].pc = "done" /\
           requests'[g].outcome = "ok") =>
             requests'[g].filename =
                 requests[g].row.name \o "_" \o Strftime(now) \o ".xlsx"]_vars

\* ------------------------------------------------------------------ C24
\* C24: an upload_template_file whose parse fails is answered with an error,
\* the file it wrote is gone again, and the template's file_path, file_name
\* and structure are what they were
C24_FailedParseLeavesTemplate ==
    [][(ops'.n = ops.n + 1 /\ ops'.op = "upload_template_file") =>
          LET t == CHOOSE u \in ops'.templates : TRUE
          IN  /\ ~ops'.ok <=> (files' = files /\ templates' = templates)
              /\ ~ops'.ok =>
                    /\ DOMAIN files' = DOMAIN files
                    /\ templates'[t].file_path = templates[t].file_path
                    /\ templates'[t].file_name = templates[t].file_name
                    /\ templates'[t].structure = templates[t].structure]_vars

\* an upload to template 1 failed: the template still has its first file
C24_Witness ==
    /\ ops.op = "upload_template_file"
    /\ ~ops.ok
    /\ ops.templates = {1}
    /\ templates[1].file_path = "u1.xlsx"
    /\ templates[1].file_name = "t1.xlsx"
    /\ templates[1].structure = ParseExcelTemplate(TemplateFile)
    /\ DOMAIN files = {"u1.xlsx", "u2.xlsx", "3_0_a.xlsx", "4_0_a.xlsx", "copy_0_a.xlsx"}

\* ------------------------------------------------------------------ C25
\* the tokens of a list of placeholders, in order
TokensIn(phs) == [k \in 1..Len(phs) |-> Token(phs[k])]

\* C25: a legacy report that has a template names, in every later state
\* until it is deleted, an existing file that parses to the placeholders
\* stored in the row, so that its generation never fails with "Template file
\* not found"
C25_LegacyTemplateStaysUsable ==
    \A r \in DOMAIN reports :
        (reports[r].template_id = 0 /\ reports[r].template_file_path # None) =>
           LET path == reports[r].template_file_path
           IN  /\ path \in DOMAIN files
               /\ IsWorkbook(files[path])
               /\ TokensIn(DetectPlaceholders(files[path], {})) =
                  TokensIn(reports[r].placeholders)

\* ------------------------------------------------------------------ C27
\* C27: no two legacy reports have the same template_file_path, whatever
\* uploads, duplications and deletions were served and whenever
C27_TemplatePathsDistinct ==
    \A r, q \in DOMAIN reports :
        (r # q /\ reports[r].template_id = 0 /\ reports[q].template_id = 0 /\
         reports[r].template_file_path # None) =>
           reports[r].template_file_path # reports[q].template_file_path

\* ------------------------------------------------------------------ C30
\* C30: a report that is public has a share token, after any sequence of
\* create_report, update_report, generate_share_token, revoke_share and
\* duplicate_report
C30_PublicHasToken ==
    \A r \in DOMAIN reports :
        reports[r].is_public => reports[r].share_token # None

\* ------------------------------------------------------------------ C29
\* the tokens that were or can be given out
ShareTokens == {"token" \o ToString(n) : n \in 0..(MaxOps + 1)}

\* no token leads to the report
Unreachable(rows, r) ==
    \A share_token \in ShareTokens : GetReportByShareToken(rows, share_token) # r

LastWriterDecides(saved) ==
    \A s \in DOMAIN saved : \A c \in DOMAIN saved[s] :
        WritersOf(s, c) # {} =>
           /\ saved[s][c].value =
                 WrittenValue(data_sources[LastOf(WritersOf(s, c))], c)
           /\ c \in HeaderCellsWritten(s) => saved[s][c].font = BoldFont

\* C28: the mappings are applied one after the other in the order of
\* data_sources, each writing the cells of its own region only; on a cell
\* that two of them write the later one's value stands in the saved
\* workbook, and a header cell of an earlier mapping that a later one
\* overwrites with data keeps the bold font
C28_MappingsInOrder ==
    [][scheme = "current" =>
          /\ pc \in {"mapping", "header", "rows"} => idx' \in {idx, idx + 1}
          /\ (pc \in {"header", "rows"} /\ wb' # wb) =>
                \A s \in DOMAIN wb :
                    Changed(s) \subseteq
                        (IF s = data_sources[idx].sheet_name
                         THEN WriteCellsOf(data_sources[idx]) ELSE {})
          /\ pc' = "saved" => LastWriterDecides(out')]_vars

\* a header cell of the first mapping holds a data value of the second, a
\* value the first mapping did not write there, and is bold
C28_Witness ==
    /\ scheme = "current"
    /\ pc = "saved"
    /\ Len(data_sources) = 2
    /\ \E s \in DOMAIN out : \E c \in DOMAIN out[s] :
          /\ WritersOf(s, c) = {1, 2}
          /\ c \in HeaderCellsOf(data_sources[1])
          /\ c \in DataCellsOf(data_sources[2]) \ HeaderCellsOf(data_sources[2])
          /\ WrittenValue(data_sources[1], c) # WrittenValue(data_sources[2], c)
          /\ out[s][c].value = WrittenValue(data_sources[2], c)
          /\ out[s][c].font = BoldFont

\* ------------------------------------------- concurrent uploads to a template
\* two clients upload to template 1 while a third generates a report of it;
\* each await and each file operation of upload_template_file is a step
Uploaders == {1, 2}

Generators == {3}

\* the files the two clients upload: the workbook the template has already,
\* two other workbooks and a file that is no workbook
UploadContents == Uploads \cup {TemplateFile}

\* the columns of a template row that an upload assigns
UploadColumns == {"file_path", "file_name", "structure"}

NoClient ==
    [pc |-> "idle", content |-> NoFile, path |-> None, structure |-> EmptyDict,
     loaded |-> EmptyDict, file |-> NoFile, outcome |-> None]

InitUpload ==
    /\ InitNoRequest
    /\ InitNoCall
    /\ pc = "upload"
    /\ now = 0
    /\ files = ("u1.xlsx" :> TemplateFile)
    /\ templates = (1 :> [name |-> "t1", file_path |-> "u1.xlsx",
                          file_name |-> "t1.xlsx",
                          structure |-> ParseExcelTemplate(TemplateFile)])
    /\ reports = (1 :> [NoRow EXCEPT !.name = "Q1 Sales", !.template_id = 1])
    /\ issued = {"u1"}
    /\ requests = [g \in Uploaders \cup Generators |-> NoClient]
    /\ ops = [n |-> 0, op |-> "none", reports |-> {}, templates |-> {}, ok |-> TRUE]

\* what a step of a client leaves alone
ClientStep(g, next) ==
    /\ requests' = [requests EXCEPT ![g] = next]
    /\ UNCHANGED <<genVars, pureVars, reports, now, ops>>

\* get_template loads the row into the session of the request, then the
\* name of the file is drawn
UploadGetTemplate(u, content) ==
    /\ requests[u].pc = "idle"
    /\ 1 \in DOMAIN templates
    /\ ClientStep(u, [requests[u] EXCEPT !.pc = "named", !.content = content,
                                         !.loaded = templates[1],
                                         !.path = UploadPath(1, issued)])
    /\ issued' = issued \cup {Uuid4(issued, 1)}
    /\ UNCHANGED <<files, templates>>

\* open(file_path, "wb"): the file exists and is empty
UploadOpenFile(u) ==
    /\ requests[u].pc = "named"
    /\ ClientStep(u, [requests[u] EXCEPT !.pc = "open"])
    /\ files' = (requests[u].path :> NoFile) @@ files
    /\ UNCHANGED <<templates, issued>>

\* f.write(content)
UploadWriteFile(u) ==
    /\ requests[u].pc = "open"
    /\ ClientStep(u, [requests[u] EXCEPT !.pc = "written"])
    /\ files' = (requests[u].path :> requests[u].content) @@ files
    /\ UNCHANGED <<templates, issued>>

\* parse_excel_template(file_path) reads the file of that name; when it
\* raises the file is removed
UploadParse(u) ==
    LET path == requests[u].path
    IN  /\ requests[u].pc = "written"
        /\ IF path \in DOMAIN files /\ IsWorkbook(files[path])
           THEN /\ ClientStep(u, [requests[u] EXCEPT
                                     !.pc = "parsed",
                                     !.structure = ParseExcelTemplate(files[path])])
                /\ UNCHANGED files
           ELSE /\ ClientStep(u, [requests[u] EXCEPT !.pc = "done",
                                                   !.outcome = "error"])
                /\ files' = Remove(files, path)
        /\ UNCHANGED <<templates, issued>>

\* the three attributes are assigned on the object the session loaded and
\* db.commit() flushes them: one UPDATE of the row, which sets the columns
\* whose attribute has another value than the one loaded and leaves the
\* other columns as the database has them
UploadCommit(u) ==
    LET assigned == [file_path |-> requests[u].path,
                     file_name |-> "upload.xlsx",
                     structure |-> requests[u].structure]
        changed == {column \in UploadColumns :
                       assigned[column] # requests[u].loaded[column]}
    IN  /\ requests[u].pc = "parsed"
        /\ ClientStep(u, [requests[u] EXCEPT !.pc = "done", !.outcome = "ok"])
        /\ templates' = [templates EXCEPT
                            ![1] = [column \in DOMAIN @ |->
                                      IF column \in changed THEN assigned[column]
                                      ELSE @[column]]]
        /\ UNCHANGED <<files, issued>>

\* generate_excel reads the report and its template
GenerateReadTemplate(g) ==
    /\ requests[g].pc = "idle"
    /\ ClientStep(g, [requests[g] EXCEPT !.pc = "read",
                                         !.path = templates[1].file_path,
                                         !.structure = templates[1].structure])
    /\ UNCHANGED <<files, templates, issued>>

\* load_workbook(template_path)
GenerateLoad(g) ==
    LET path == requests[g].path
        found == path \in DOMAIN files /\ IsWorkbook(files[path])
    IN  /\ requests[g].pc = "read"
        /\ ClientStep(g, [requests[g] EXCEPT
                             !.pc = "done",
                             !.file = IF path \in DOMAIN files THEN files[path]
                                      ELSE NoFile,
                             !.outcome = IF found THEN "ok" ELSE "error"])
        /\ UNCHANGED <<files, templates, issued>>

NextUpload ==
    \/ \E u \in Uploaders, content \in UploadContents : UploadGetTemplate(u, content)
    \/ \E u \in Uploaders : UploadOpenFile(u)
    \/ \E u \in Uploaders : UploadWriteFile(u)
    \/ \E u \in Uploaders : UploadParse(u)
    \/ \E u \in Uploaders : UploadCommit(u)
    \/ \E g \in Generators : GenerateReadTemplate(g)
    \/ \E g \in Generators : GenerateLoad(g)

SpecUpload == InitUpload /\ [][NextUpload]_vars

\* ------------------------------------------------------------------ C26
\* C26: under every interleaving of two upload_template_file calls on one
\* template the committed structure is the parse of the completely written
\* file that the committed file_path names, and a generation running beside
\* them loads a complete file, the old one or a new one, never a partial one
C26_CommittedPairConsistent ==
    /\ templates[1].file_path \in DOMAIN files
    /\ IsWorkbook(files[templates[1].file_path])
    /\ templates[1].structure = ParseExcelTemplate(files[templates[1].file_path])
    /\ \A g \in Generators :
          requests[g].pc = "done" =>
             /\ requests[g].outcome = "ok"
             /\ requests[g].file \in {f \in UploadContents : IsWorkbook(f)}
             /\ requests[g].structure = ParseExcelTemplate(requests[g].file)

====
